---------------------------- MODULE Spec2Model ----------------------------
(***************************************************************************)
(* Action execution and recovery subsystem of the calendar agent backend:  *)
(*   - ActionHistory (backend/action_history.py): bounded per-session      *)
(*     journal of reversible actions;                                      *)
(*   - the Google Calendar backend as seen through calendar_service.py;    *)
(*   - undo_last_action and chat_with_agent (backend/agent_routes.py).     *)
(*                                                                         *)
(* Three specifications are defined over the same variables:               *)
(*   SpecStore  drives the ActionHistory API directly with arbitrary       *)
(*              records (the store validates nothing);                     *)
(*   Spec       is the server: the /agent/chat and /agent/undo handlers    *)
(*              running on one asyncio event loop;                         *)
(*   SpecConc   runs add and get_last statement by statement for several   *)
(*              requests of one session on that event loop.                *)
(***************************************************************************)
EXTENDS Integers, Sequences, FiniteSets, TLC

VARIABLES
    history,      \* ActionHistory._history : dict key -> deque of ActionRecord
    nextRecId,    \* number of ActionRecords constructed so far + 1 (uuid4 source)
    added,        \* ghost: per key, ids of all records ever added, newest first
    cal,          \* calendar backend: event id -> event dict or NoEvent
    nextEventId,  \* next identifier the backend assigns on insert
    chat,         \* the in-flight chat_with_agent coroutine (locals + position);
                  \* under SpecConc, the coroutine of every request in flight
    undone,       \* ghost: ids of the records a successful undo has reversed
    event         \* observation: the last handler call or step, with its result

vars == <<history, nextRecId, added, cal, nextEventId, chat, undone, event>>

---------------------------------------------------------------------------
(* Bounds of the model *)

\* capacity of the store (ActionHistory(max_history=...))
max_history == 2
\* number of add calls SpecStore makes in one behaviour
MaxAdds == 3
\* largest limit passed to get_history
MaxLimit == 2

(* Program constants *)

\* action_history.py:26  access_token[-20:]
KeyLen == 20

---------------------------------------------------------------------------
(* Credentials.  A token is a string, modelled as a sequence of character  *)
(* codes.  TokA and TokB differ only before their last KeyLen characters.  *)

Suffix == [i \in 1..KeyLen |-> 7]
TokA == <<1>> \o Suffix
TokB == <<2>> \o Suffix
TokC == <<3, 3>>
Tokens == {TokA, TokB, TokC}

\* the credentials of the clients of the server: two sessions
Callers == {TokA, TokC}

Min(a, b) == IF a < b THEN a ELSE b
Max(a, b) == IF a > b THEN a ELSE b

\* Python's None, for optional records and events
NoRecord == [none |-> TRUE]
NoEvent == [none |-> TRUE]

---------------------------------------------------------------------------
(* ActionHistory -- backend/action_history.py *)

\* _get_key: the last 20 characters of the token (the whole token if shorter)
get_key(access_token) ==
    SubSeq(access_token, Max(1, Len(access_token) - KeyLen + 1), Len(access_token))

\* ActionRecord(...) as constructed by the callers; rolled_back defaults to False
ActionRecord(id, action_type, event_id, rollback_data) ==
    [id |-> id, timestamp |-> id, action_type |-> action_type,
     event_id |-> event_id, rollback_data |-> rollback_data,
     rolled_back |-> FALSE]

\* variant of appendleft: a deque without maxlen
appendleft_unbounded(dq, record) == <<record>> \o dq

\* deque(maxlen=max_history).appendleft(record): a full deque drops its right end
appendleft(dq, record) ==
    LET s == <<record>> \o dq
    IN  IF Len(s) > max_history THEN SubSeq(s, 1, max_history) ELSE s

\* ActionHistory.add
add(h, access_token, record) ==
    LET key == get_key(access_token)
        dq  == IF key \in DOMAIN h THEN h[key] ELSE <<>>
    IN  [k \in (DOMAIN h) \cup {key} |->
            IF k = key THEN appendleft(dq, record) ELSE h[k]]

RECURSIVE scan_last_any(_, _)
\* variant of scan_last: the rolled_back test is missing
scan_last_any(dq, i) ==
    IF i > Len(dq) THEN NoRecord
    ELSE IF dq[i].action_type \in {"create", "update", "delete"}
         THEN dq[i]
         ELSE scan_last_any(dq, i + 1)

RECURSIVE scan_last_newest_only(_, _)
\* variant of scan_last: the scan ends at the newest record of a journaled
\* type, rolled back or not
scan_last_newest_only(dq, i) ==
    IF i > Len(dq) THEN NoRecord
    ELSE IF dq[i].action_type \in {"create", "update", "delete"}
         THEN (IF dq[i].rolled_back THEN NoRecord ELSE dq[i])
         ELSE scan_last_newest_only(dq, i + 1)

RECURSIVE scan_last_oldest(_, _)
\* variant of scan_last: the journal is scanned from its old end
scan_last_oldest(dq, i) ==
    IF i > Len(dq) THEN NoRecord
    ELSE LET k == Len(dq) + 1 - i
         IN  IF ~dq[k].rolled_back
                /\ dq[k].action_type \in {"create", "update", "delete"}
             THEN dq[k]
             ELSE scan_last_oldest(dq, i + 1)

RECURSIVE scan_last(_, _)
\* the for loop of get_last, from position i
scan_last(dq, i) ==
    IF i > Len(dq) THEN NoRecord
    ELSE IF ~dq[i].rolled_back
            /\ dq[i].action_type \in {"create", "update", "delete"}
         THEN dq[i]
         ELSE scan_last(dq, i + 1)

\* ActionHistory.get_last
get_last(h, access_token) ==
    LET key == get_key(access_token)
    IN  IF key \notin DOMAIN h THEN NoRecord ELSE scan_last(h[key], 1)

RECURSIVE scan_mark_toggle(_, _, _)
\* variant of scan_mark: the flag is flipped instead of set
scan_mark_toggle(dq, action_id, i) ==
    IF i > Len(dq) THEN dq
    ELSE IF dq[i].id = action_id
         THEN [dq EXCEPT ![i].rolled_back = ~@]
         ELSE scan_mark_toggle(dq, action_id, i + 1)

RECURSIVE scan_mark(_, _, _)
\* the for loop of mark_rolled_back, from position i: first match is set, then break
scan_mark(dq, action_id, i) ==
    IF i > Len(dq) THEN dq
    ELSE IF dq[i].id = action_id
         THEN [dq EXCEPT ![i].rolled_back = TRUE]
         ELSE scan_mark(dq, action_id, i + 1)

\* variant of mark_rolled_back: the flag is never set
mark_rolled_back_noop(h, access_token, action_id) == h

\* variant of mark_rolled_back: the flag is kept on the marked record only
mark_rolled_back_exclusive(h, access_token, action_id) ==
    LET key == get_key(access_token)
    IN  IF key \in DOMAIN h
        THEN [h EXCEPT ![key] =
                 [i \in DOMAIN h[key] |->
                     [h[key][i] EXCEPT !.rolled_back = (h[key][i].id = action_id)]]]
        ELSE h

\* ActionHistory.mark_rolled_back
mark_rolled_back(h, access_token, action_id) ==
    LET key == get_key(access_token)
    IN  IF key \in DOMAIN h
        THEN [h EXCEPT ![key] = scan_mark(h[key], action_id, 1)]
        ELSE h

\* variant of slice_to: the slice is taken from the other end, s[-limit:]
slice_to_tail(s, limit) ==
    IF limit = 0 THEN s
    ELSE SubSeq(s, Max(1, Len(s) - limit + 1), Len(s))

\* Python list slice s[:limit]
slice_to(s, limit) ==
    IF limit >= 0 THEN SubSeq(s, 1, Min(limit, Len(s)))
    ELSE SubSeq(s, 1, Max(0, Len(s) + limit))

\* ActionHistory.get_history
get_history(h, access_token, limit) ==
    LET key == get_key(access_token)
    IN  IF key \notin DOMAIN h THEN <<>> ELSE slice_to(h[key], limit)

\* ghost bookkeeping that accompanies every add
note_added(a, access_token, id) ==
    LET key == get_key(access_token)
        old == IF key \in DOMAIN a THEN a[key] ELSE <<>>
    IN  [k \in (DOMAIN a) \cup {key} |-> IF k = key THEN <<id>> \o old ELSE a[k]]

EmptyMap == [k \in {} |-> <<>>]


---------------------------------------------------------------------------
(* Calendar backend -- the Google Calendar API behind calendar_service.py. *)
(* All credentials of the model belong to one account, so there is one     *)
(* "primary" calendar.  Every call may fail (HttpError); "notfound" is     *)
(* status 404, "other" stands for every other status.  The calendar is     *)
(* shared with other clients and is eventually consistent: a call may find *)
(* that the event has vanished meanwhile, and a delete may be acknowledged *)
(* while the event is still readable.                                      *)

\* number of event identifiers the backend can hand out
MaxEvents == 2
EventIds == 1..MaxEvents

\* agent_routes.py:485  fields that cannot be set on create
BackendFields == {"id", "etag", "created", "updated", "creator", "organizer",
                  "htmlLink", "iCalUID"}

\* the fields the backend assigns to the event it stores under identifier id
assigned(id) ==
    [id |-> id, etag |-> id, created |-> id, updated |-> id, creator |-> 0,
     organizer |-> 0, htmlLink |-> id, iCalUID |-> id]

\* the event the backend stores for a request body: backend-assigned fields
\* come from srv, every other field from the body
stored(body, srv) ==
    [f \in (DOMAIN body) \cup BackendFields |->
        IF f \in BackendFields THEN srv[f] ELSE body[f]]

present(c, id) == id \in DOMAIN c /\ c[id] # NoEvent

Outcome(status, ev, c, n) == [status |-> status, event |-> ev, cal |-> c, next |-> n]

\* service.events().get(eventId=id).execute()  (get_event)
svc_get(c, n, id) ==
    {Outcome("other", NoEvent, c, n)}
    \cup (IF present(c, id)
          THEN {Outcome("ok", c[id], c, n),
                Outcome("notfound", NoEvent, [c EXCEPT ![id] = NoEvent], n)}
          ELSE {Outcome("notfound", NoEvent, c, n)})

\* service.events().delete(eventId=id).execute()  (delete_event)
svc_delete(c, n, id) ==
    {Outcome("other", NoEvent, c, n)}
    \cup (IF present(c, id)
          THEN {Outcome("ok", NoEvent, [c EXCEPT ![id] = NoEvent], n),
                Outcome("ok", NoEvent, c, n),
                Outcome("notfound", NoEvent, [c EXCEPT ![id] = NoEvent], n)}
          ELSE {Outcome("notfound", NoEvent, c, n)})

\* service.events().insert(body=body).execute(): the backend assigns a fresh
\* identifier unless the body names one, which must then be unused
svc_insert(c, n, body) ==
    {Outcome("other", NoEvent, c, n)}
    \cup (IF "id" \in DOMAIN body
          THEN IF body["id"] \in EventIds /\ ~present(c, body["id"])
               THEN LET ev == stored(body, assigned(body["id"]))
                    IN  {Outcome("ok", ev, [c EXCEPT ![body["id"]] = ev], n)}
               ELSE {}
          ELSE IF n \in EventIds
               THEN LET ev == stored(body, assigned(n))
                    IN  {Outcome("ok", ev, [c EXCEPT ![n] = ev], n + 1)}
               ELSE {})

\* service.events().update(eventId=id, body=body).execute(): full replace
svc_update(c, n, id, body) ==
    {Outcome("other", NoEvent, c, n)}
    \cup (IF present(c, id)
          THEN LET ev == stored(body, c[id])
               IN  {Outcome("ok", ev, [c EXCEPT ![id] = ev], n),
                    Outcome("notfound", NoEvent, [c EXCEPT ![id] = NoEvent], n)}
          ELSE {Outcome("notfound", NoEvent, c, n)})

\* service.events().list(...).execute()  (list_events)
svc_list(c, n) ==
    {Outcome("other", NoEvent, c, n), Outcome("ok", NoEvent, c, n)}

\* one entry of the log of backend calls a handler made
Call(op, id, body, status) == [op |-> op, id |-> id, body |-> body, status |-> status]

\* the request body of create_event (calendar_service.py:105-109)
create_body(summary) == [summary |-> summary, start |-> 1, end |-> 2]


---------------------------------------------------------------------------
(* Shared pieces of the route handlers -- backend/agent_routes.py *)

\* number of actions the interpreter returns in one behaviour, over all
\* requests and both passes
MaxActions == 2

\* agent_routes.py:266
max_attempts == 2

NoData == [none |-> TRUE]
NoError == "None"
EmptyDict == [k \in {} |-> NoEvent]

\* dict.get(k) used as a truth value
dict_get(d, k) == IF k \in DOMAIN d THEN d[k] ELSE FALSE

\* handle_google_error
handle_google_error(status) ==
    IF status = "notfound" THEN "Event not found." ELSE "Google Calendar error"

\* variant of strip_fields: "id" is missing from the list of popped fields
strip_fields_keep_id(ev) == [f \in (DOMAIN ev) \ (BackendFields \ {"id"}) |-> ev[f]]

\* the for loop of agent_routes.py:485-486 (dict.pop of every backend field)
strip_fields(ev) == [f \in (DOMAIN ev) \ BackendFields |-> ev[f]]

\* the record object last_action is mutated in place: the journal holds the
\* same object, found here by its (unique) id
replace_record(h, access_token, rec) ==
    LET key == get_key(access_token)
    IN  [h EXCEPT ![key] =
            [i \in DOMAIN h[key] |-> IF h[key][i].id = rec.id THEN rec ELSE h[key][i]]]

UndoResponse(success, message, undone_action, data) ==
    [success |-> success, message |-> message, undone_action |-> undone_action,
     data |-> data]

\* the coroutine positions at which the event loop can run another handler:
\* no request in flight, or chat_with_agent suspended in an await
AwaitPoints == {"idle", "llm1", "verify", "backoff", "llm2", "rverify"}
AtAwait == chat.pc \in AwaitPoints

UndoEvent(tok, target, calls, response) ==
    [kind |-> "undo", token |-> tok, target |-> target, calls |-> calls,
     response |-> response]

---------------------------------------------------------------------------
(* POST /agent/undo -- undo_last_action.  The handler has no await: it     *)
(* runs from get_last to its return without yielding the event loop.       *)

\* variant of UndoNothing: the lookup leaves an empty journal behind for the session
UndoNothing_touch(tok) ==
    /\ event' = UndoEvent(tok, NoRecord, <<>>,
                          UndoResponse(FALSE, "No actions to undo", "None", NoData))
    /\ history' = [k \in (DOMAIN history) \cup {get_key(tok)} |->
                      IF k \in DOMAIN history THEN history[k] ELSE <<>>]
    /\ UNCHANGED <<nextRecId, added, cal, nextEventId, chat, undone>>

UndoNothing(tok) ==
    /\ event' = UndoEvent(tok, NoRecord, <<>>,
                          UndoResponse(FALSE, "No actions to undo", "None", NoData))
    /\ UNCHANGED <<history, nextRecId, added, cal, nextEventId, chat, undone>>

\* variant of UndoCreate: the record is not marked after the delete
UndoCreate_nomark(tok, last_action) ==
    \E out \in svc_delete(cal, nextEventId, last_action.event_id) :
        /\ cal' = out.cal
        /\ nextEventId' = out.next
        /\ UNCHANGED <<history, nextRecId, added, chat>>
        /\ IF out.status = "ok"
           THEN /\ undone' = undone \cup {last_action.id}
                /\ event' = UndoEvent(tok, last_action,
                       <<Call("delete", last_action.event_id, NoData, out.status)>>,
                       UndoResponse(TRUE, "Undone: deleted the created event", "create",
                                    [deleted_event_id |-> last_action.event_id]))
           ELSE /\ UNCHANGED undone
                /\ event' = UndoEvent(tok, last_action,
                       <<Call("delete", last_action.event_id, NoData, out.status)>>,
                       UndoResponse(FALSE, "Failed to undo", "None", NoData))

\* variant of UndoCreate: the record is marked before the delete call
UndoCreate_markfirst(tok, last_action) ==
    \E out \in svc_delete(cal, nextEventId, last_action.event_id) :
        /\ cal' = out.cal
        /\ nextEventId' = out.next
        /\ history' = mark_rolled_back(history, tok, last_action.id)
        /\ UNCHANGED <<nextRecId, added, chat>>
        /\ IF out.status = "ok"
           THEN /\ undone' = undone \cup {last_action.id}
                /\ event' = UndoEvent(tok, last_action,
                       <<Call("delete", last_action.event_id, NoData, out.status)>>,
                       UndoResponse(TRUE, "Undone: deleted the created event", "create",
                                    [deleted_event_id |-> last_action.event_id]))
           ELSE /\ UNCHANGED undone
                /\ event' = UndoEvent(tok, last_action,
                       <<Call("delete", last_action.event_id, NoData, out.status)>>,
                       UndoResponse(FALSE, "Failed to undo", "None", NoData))

UndoCreate(tok, last_action) ==
    \E out \in svc_delete(cal, nextEventId, last_action.event_id) :
        /\ cal' = out.cal
        /\ nextEventId' = out.next
        /\ IF out.status = "ok"
           THEN /\ history' = mark_rolled_back(history, tok, last_action.id)
                /\ undone' = undone \cup {last_action.id}
                /\ event' = UndoEvent(tok, last_action,
                       <<Call("delete", last_action.event_id, NoData, out.status)>>,
                       UndoResponse(TRUE, "Undone: deleted the created event", "create",
                                    [deleted_event_id |-> last_action.event_id]))
           ELSE /\ UNCHANGED <<history, undone>>
                /\ event' = UndoEvent(tok, last_action,
                       <<Call("delete", last_action.event_id, NoData, out.status)>>,
                       UndoResponse(FALSE, "Failed to undo", "None", NoData))
        /\ UNCHANGED <<nextRecId, added, chat>>

\* variant of UndoUpdate: only the summary of the snapshot is sent
UndoUpdate_partial(tok, last_action) ==
    LET original == [summary |-> last_action.rollback_data["original_event"]["summary"]]
    IN  \E out \in svc_update(cal, nextEventId, last_action.event_id, original) :
           /\ cal' = out.cal
           /\ nextEventId' = out.next
           /\ UNCHANGED <<nextRecId, added, chat>>
           /\ IF out.status = "ok"
              THEN /\ history' = mark_rolled_back(history, tok, last_action.id)
                   /\ undone' = undone \cup {last_action.id}
                   /\ event' = UndoEvent(tok, last_action,
                          <<Call("update", last_action.event_id, original, out.status)>>,
                          UndoResponse(TRUE, "Undone: restored event to original state",
                                       "update", [event_id |-> last_action.event_id]))
              ELSE /\ UNCHANGED <<history, undone>>
                   /\ event' = UndoEvent(tok, last_action,
                          <<Call("update", last_action.event_id, original, out.status)>>,
                          UndoResponse(FALSE, "Failed to undo", "None", NoData))

UndoUpdate(tok, last_action) ==
    IF "original_event" \notin DOMAIN last_action.rollback_data
    THEN \* KeyError, caught by except Exception
         /\ event' = UndoEvent(tok, last_action, <<>>,
                               UndoResponse(FALSE, "Failed to undo", "None", NoData))
         /\ UNCHANGED <<history, nextRecId, added, cal, nextEventId, chat, undone>>
    ELSE LET original == last_action.rollback_data["original_event"]
         IN  \E out \in svc_update(cal, nextEventId, last_action.event_id, original) :
                /\ cal' = out.cal
                /\ nextEventId' = out.next
                /\ IF out.status = "ok"
                   THEN /\ history' = mark_rolled_back(history, tok, last_action.id)
                        /\ undone' = undone \cup {last_action.id}
                        /\ event' = UndoEvent(tok, last_action,
                               <<Call("update", last_action.event_id, original, out.status)>>,
                               UndoResponse(TRUE, "Undone: restored event to original state",
                                            "update", [event_id |-> last_action.event_id]))
                   ELSE /\ UNCHANGED <<history, undone>>
                        /\ event' = UndoEvent(tok, last_action,
                               <<Call("update", last_action.event_id, original, out.status)>>,
                               UndoResponse(FALSE, "Failed to undo", "None", NoData))
                /\ UNCHANGED <<nextRecId, added, chat>>

UndoDelete(tok, last_action) ==
    IF "deleted_event" \notin DOMAIN last_action.rollback_data
    THEN \* KeyError, caught by except Exception
         /\ event' = UndoEvent(tok, last_action, <<>>,
                               UndoResponse(FALSE, "Failed to undo", "None", NoData))
         /\ UNCHANGED <<history, nextRecId, added, cal, nextEventId, chat, undone>>
    ELSE LET deleted_event == strip_fields(last_action.rollback_data["deleted_event"])
             \* the pops act on the dict held by the journaled record
             popped == [last_action EXCEPT !.rollback_data =
                           [deleted_event |-> deleted_event]]
             h1 == replace_record(history, tok, popped)
         IN  \E out \in svc_insert(cal, nextEventId, deleted_event) :
                /\ cal' = out.cal
                /\ nextEventId' = out.next
                /\ IF out.status = "ok"
                   THEN /\ history' = mark_rolled_back(h1, tok, last_action.id)
                        /\ undone' = undone \cup {last_action.id}
                        /\ event' = UndoEvent(tok, last_action,
                               <<Call("insert", 0, deleted_event, out.status)>>,
                               UndoResponse(TRUE, "Undone: re-created the deleted event",
                                            "delete", [new_event_id |-> out.event["id"]]))
                   ELSE /\ history' = h1
                        /\ UNCHANGED undone
                        /\ event' = UndoEvent(tok, last_action,
                               <<Call("insert", 0, deleted_event, out.status)>>,
                               UndoResponse(FALSE, "Failed to undo", "None", NoData))
                /\ UNCHANGED <<nextRecId, added, chat>>

\* undo_last_action
Undo(tok) ==
    /\ AtAwait
    /\ LET last_action == get_last(history, tok)
       IN  IF last_action = NoRecord THEN UndoNothing(tok)
           ELSE IF last_action.action_type = "create" THEN UndoCreate(tok, last_action)
           ELSE IF last_action.action_type = "update" THEN UndoUpdate(tok, last_action)
           ELSE IF last_action.action_type = "delete" THEN UndoDelete(tok, last_action)
           ELSE /\ event' = UndoEvent(tok, last_action, <<>>,
                       UndoResponse(FALSE, "Unknown action type", "None", NoData))
                /\ UNCHANGED <<history, nextRecId, added, cal, nextEventId, chat, undone>>

---------------------------------------------------------------------------
(* POST /agent/chat -- chat_with_agent.  The coroutine yields the event    *)
(* loop only in its awaits (the two interpreter calls and the sleeps of a  *)
(* delete); between two awaits it runs alone.                              *)
(*                                                                         *)
(* The interpreter's response is an input.  Its length is drawn when the   *)
(* call returns; the content of each action is drawn when the loop reaches *)
(* it, which gives the same behaviours as drawing the whole list at once.  *)

\* the actions the interpreter can return (llm_models.py:10-49)
LLMActions ==
    {[action |-> "create", summary |-> "a"]}
    \cup {[action |-> "update", event_id |-> id, summary |-> "b"] : id \in EventIds}
    \cup {[action |-> "delete", event_id |-> id] : id \in EventIds}
    \cup {[action |-> "list"]}
    \cup {[action |-> "get", event_id |-> id] : id \in EventIds}

ActionsOf(kind) == {a \in LLMActions : a.action = kind}

\* locals of chat_with_agent; "idle" is no request in flight.
\*   n, actions, i       : llm_response.actions (length, the actions reached
\*                         so far) and the loop position
\*   retry_n, retry_actions, j : the same for retry_response.actions
\*   drawn               : number of actions the interpreter has returned so
\*                         far in this behaviour (bounded by MaxActions)
ChatIdle(drawn) ==
    [pc |-> "idle", access_token |-> <<>>, n |-> 0, actions |-> <<>>,
     results |-> <<>>, i |-> 0, attempt |-> 0, event_to_delete |-> NoEvent,
     calls |-> <<>>, retry_n |-> 0, retry_actions |-> <<>>, j |-> 0,
     drawn |-> drawn]

ActionResult(action, success, data, error, can_undo) ==
    [action |-> action, success |-> success, data |-> data, error |-> error,
     can_undo |-> can_undo]

\* EventResponse.from_google_event(e).model_dump()
EventResponse(ev) == [id |-> ev["id"], summary |-> ev["summary"]]

ChatStep(name) == [kind |-> "chat", step |-> name]

\* observation of a finished action: the pass it ran in, the action, the
\* backend calls it made in order, and the id of the record it journaled
\* (0 when none)
ActionDone(pass, action, calls, journaled) ==
    [kind |-> "chat", step |-> "action", pass |-> pass, action |-> action,
     calls |-> calls, journaled |-> journaled]

\* return AgentResponse(...) / raise HTTPException(...)
Respond(status, message, results) ==
    /\ chat' = ChatIdle(chat.drawn)
    /\ event' = [kind |-> "chat_response", status |-> status, message |-> message,
                 results |-> results, token |-> chat.access_token]

\* the coroutine with action a as the one the first-pass loop has reached
Reached(a) == [chat EXCEPT !.actions = Append(@, a)]

\* results.append(result) and on to the next action of the first pass
NextAction(ch, result, calls, journaled, c, n) ==
    /\ cal' = c
    /\ nextEventId' = n
    /\ chat' = [ch EXCEPT !.results = Append(@, result), !.i = @ + 1,
                          !.pc = "run", !.attempt = 0, !.calls = <<>>,
                          !.event_to_delete = NoEvent]
    /\ event' = ActionDone("first", ch.actions[ch.i], calls, journaled)

\* action_history.add(access_token, ActionRecord(id=str(uuid.uuid4()), ...))
Journal(action_type, event_id, rollback_data) ==
    /\ history' = add(history, chat.access_token,
                      ActionRecord(nextRecId, action_type, event_id, rollback_data))
    /\ added' = note_added(added, chat.access_token, nextRecId)
    /\ nextRecId' = nextRecId + 1
    /\ UNCHANGED undone

NoJournal == UNCHANGED <<history, added, nextRecId, undone>>

\* variant of Failure: the exception escapes the loop body, no result is appended
Failure_lost(ch, status, calls, c, n) ==
    /\ cal' = c
    /\ nextEventId' = n
    /\ chat' = [ch EXCEPT !.i = @ + 1, !.pc = "run", !.attempt = 0, !.calls = <<>>,
                          !.event_to_delete = NoEvent]
    /\ event' = ChatStep("lost")
    /\ NoJournal

\* the except clauses of agent_routes.py:343-346
Failure(ch, status, calls, c, n) ==
    /\ NextAction(ch, ActionResult(ch.actions[ch.i].action, FALSE, NoData,
                                   handle_google_error(status), FALSE),
                  calls, 0, c, n)
    /\ NoJournal

\* the request starts: the event list is fetched for context (a failure is
\* ignored) and the interpreter is awaited.  Requests are made while the
\* interpreter has actions left to return in this behaviour.
ChatStart(tok) ==
    /\ chat.pc = "idle"
    /\ chat.drawn < MaxActions
    /\ \E out \in svc_list(cal, nextEventId) :
          chat' = [ChatIdle(chat.drawn) EXCEPT !.pc = "llm1", !.access_token = tok]
    /\ event' = ChatStep("start")
    /\ UNCHANGED <<history, nextRecId, added, cal, nextEventId, undone>>

\* the call to the model server failed: no text came back (llm_service.py:115-131)
TransportFailure == [failed |-> TRUE]

\* the text the model server returned, by what json.loads makes of it:
\*   direct : of the whole text, fences stripped (llm_service.py:146-161)
\*   inner  : of the part from its first "{" to its last "}", "none" when
\*            there is no such part (llm_service.py:164-171)
\* "valid" is an object LLMResponse accepts, "invalid" an object it rejects,
\* "non_mapping" any other JSON value (an array, a string, null, a number),
\* "decode_error" a text that is not JSON.  A text that is an object is its
\* own inner part; an inner part that parses is an object.
LLMTexts ==
    {[direct |-> d, inner |-> d] : d \in {"valid", "invalid"}}
    \cup {[direct |-> "non_mapping", inner |-> "none"]}
    \cup {[direct |-> "decode_error", inner |-> i] :
             i \in {"none", "decode_error", "valid", "invalid"}}

\* parse_llm_response (llm_service.py:134-181): what it returns or raises
parse_llm_response(text) ==
    IF text.direct = "valid" THEN "LLMResponse"
    \* LLMResponse(**data) raises pydantic's ValidationError, a ValueError
    ELSE IF text.direct = "invalid" THEN "ValueError"
    \* LLMResponse(**data) with data not a mapping: TypeError, which the
    \* except json.JSONDecodeError clause lets through
    ELSE IF text.direct = "non_mapping" THEN "TypeError"
    \* json.JSONDecodeError: try the part between the braces
    ELSE IF text.inner = "none" THEN "ValueError"
    ELSE IF text.inner = "valid" THEN "LLMResponse"
    ELSE "ValueError"

\* what one call of the interpreter can come to
InterpreterOutcomes == {TransportFailure} \cup LLMTexts

\* get_calendar_actions (llm_service.py:184-211): what it returns or raises
get_calendar_actions(out) ==
    IF out = TransportFailure THEN "HTTPError" ELSE parse_llm_response(out)

\* raise HTTPException(status_code=...) out of the first interpreter call
Abort(status, out) ==
    /\ chat' = ChatIdle(chat.drawn)
    /\ event' = [kind |-> "chat_error", status |-> status, output |-> out,
                 token |-> chat.access_token]

\* the first get_calendar_actions returns or raises (agent_routes.py:171-196)
LlmFirst ==
    /\ chat.pc = "llm1"
    /\ \E out \in InterpreterOutcomes :
          IF get_calendar_actions(out) = "LLMResponse"
          THEN \E len \in 0..(MaxActions - chat.drawn) :
                  /\ chat' = [chat EXCEPT !.pc = "run", !.n = len, !.i = 1,
                                          !.drawn = @ + len]
                  /\ event' = ChatStep("llm1")
          ELSE IF get_calendar_actions(out) = "ValueError"
          THEN Abort(422, out)
          ELSE Abort(502, out)
    /\ UNCHANGED <<history, nextRecId, added, cal, nextEventId, undone>>

\* the first-pass loop is at an action
Running ==
    /\ chat.pc = "run"
    /\ chat.i <= chat.n

\* variant of RunCreate: the record names the identifier the backend will
\* assign next instead of the one it assigned
RunCreate_next_id ==
    /\ Running
    /\ \E a \in ActionsOf("create") :
         LET body == create_body(a.summary)
         IN  \E out \in svc_insert(cal, nextEventId, body) :
                LET calls == <<Call("insert", 0, body, out.status)>>
                IN  IF out.status = "ok"
                    THEN /\ NextAction(Reached(a),
                                ActionResult("create", TRUE, EventResponse(out.event),
                                             NoError, TRUE),
                                calls, nextRecId, out.cal, out.next)
                         /\ Journal("create", out.next, EmptyDict)
                    ELSE Failure(Reached(a), out.status, calls, out.cal, out.next)

\* isinstance(action, CreateEventAction)  (agent_routes.py:199-225)
RunCreate ==
    /\ Running
    /\ \E a \in ActionsOf("create") :
         LET body == create_body(a.summary)
         IN  \E out \in svc_insert(cal, nextEventId, body) :
                LET calls == <<Call("insert", 0, body, out.status)>>
                IN  IF out.status = "ok"
                    THEN /\ NextAction(Reached(a),
                                ActionResult("create", TRUE, EventResponse(out.event),
                                             NoError, TRUE),
                                calls, nextRecId, out.cal, out.next)
                         /\ Journal("create", out.event["id"], EmptyDict)
                    ELSE Failure(Reached(a), out.status, calls, out.cal, out.next)

\* variant of RunUpdate: the snapshot is taken after the write
RunUpdate_snapshot_after ==
    /\ Running
    /\ \E a \in ActionsOf("update") :
         LET id == a.event_id
         IN  \E o1 \in svc_get(cal, nextEventId, id) :
                LET c1 == <<Call("get", id, NoData, o1.status)>>
                IN  IF o1.status # "ok"
                    THEN Failure(Reached(a), o1.status, c1, o1.cal, o1.next)
                    ELSE \E o2 \in svc_get(o1.cal, o1.next, id) :
                           LET c2 == Append(c1, Call("get", id, NoData, o2.status))
                           IN  IF o2.status # "ok"
                               THEN Failure(Reached(a), o2.status, c2, o2.cal, o2.next)
                               ELSE LET existing_event ==
                                          [o2.event EXCEPT !["summary"] = a.summary]
                                    IN  \E o3 \in svc_update(o2.cal, o2.next, id, existing_event) :
                                           LET c3 == Append(c2, Call("update", id, existing_event, o3.status))
                                           IN  IF o3.status # "ok"
                                               THEN Failure(Reached(a), o3.status, c3, o3.cal, o3.next)
                                               ELSE /\ NextAction(Reached(a),
                                                          ActionResult("update", TRUE,
                                                                       EventResponse(o3.event),
                                                                       NoError, TRUE),
                                                          c3, nextRecId, o3.cal, o3.next)
                                                    /\ Journal("update", id,
                                                               [original_event |-> o3.event])

\* isinstance(action, UpdateEventAction)  (agent_routes.py:227-250, with
\* update_event of calendar_service.py:124-163 inlined)
RunUpdate ==
    /\ Running
    /\ \E a \in ActionsOf("update") :
         LET id == a.event_id
         IN  \E o1 \in svc_get(cal, nextEventId, id) :
                LET c1 == <<Call("get", id, NoData, o1.status)>>
                IN  IF o1.status # "ok"
                    THEN Failure(Reached(a), o1.status, c1, o1.cal, o1.next)
                    ELSE \E o2 \in svc_get(o1.cal, o1.next, id) :
                           LET c2 == Append(c1, Call("get", id, NoData, o2.status))
                           IN  IF o2.status # "ok"
                               THEN Failure(Reached(a), o2.status, c2, o2.cal, o2.next)
                               ELSE LET existing_event ==
                                          [o2.event EXCEPT !["summary"] = a.summary]
                                    IN  \E o3 \in svc_update(o2.cal, o2.next, id, existing_event) :
                                           LET c3 == Append(c2, Call("update", id, existing_event, o3.status))
                                           IN  IF o3.status # "ok"
                                               THEN Failure(Reached(a), o3.status, c3, o3.cal, o3.next)
                                               ELSE /\ NextAction(Reached(a),
                                                          ActionResult("update", TRUE,
                                                                       EventResponse(o3.event),
                                                                       NoError, TRUE),
                                                          c3, nextRecId, o3.cal, o3.next)
                                                    /\ Journal("update", id,
                                                               [original_event |-> o1.event])

\* isinstance(action, ListEventsAction)  (agent_routes.py:322-335)
RunList ==
    /\ Running
    /\ \E a \in ActionsOf("list") :
         \E out \in svc_list(cal, nextEventId) :
            LET calls == <<Call("list", 0, NoData, out.status)>>
            IN  IF out.status = "ok"
                THEN /\ NextAction(Reached(a),
                            ActionResult("list", TRUE,
                                [count |-> Cardinality({id \in EventIds : present(cal, id)})],
                                NoError, FALSE),
                            calls, 0, out.cal, out.next)
                     /\ NoJournal
                ELSE Failure(Reached(a), out.status, calls, out.cal, out.next)

\* variant of RunGet: a successful get is journaled like a mutation
RunGet_journaled ==
    /\ Running
    /\ \E a \in ActionsOf("get") :
         \E out \in svc_get(cal, nextEventId, a.event_id) :
            LET calls == <<Call("get", a.event_id, NoData, out.status)>>
            IN  IF out.status = "ok"
                THEN /\ NextAction(Reached(a),
                            ActionResult("get", TRUE, EventResponse(out.event),
                                         NoError, FALSE),
                            calls, nextRecId, out.cal, out.next)
                     /\ Journal("get", a.event_id, EmptyDict)
                ELSE Failure(Reached(a), out.status, calls, out.cal, out.next)

\* isinstance(action, GetEventAction)  (agent_routes.py:337-341)
RunGet ==
    /\ Running
    /\ \E a \in ActionsOf("get") :
         \E out \in svc_get(cal, nextEventId, a.event_id) :
            LET calls == <<Call("get", a.event_id, NoData, out.status)>>
            IN  IF out.status = "ok"
                THEN /\ NextAction(Reached(a),
                            ActionResult("get", TRUE, EventResponse(out.event),
                                         NoError, FALSE),
                            calls, 0, out.cal, out.next)
                     /\ NoJournal
                ELSE Failure(Reached(a), out.status, calls, out.cal, out.next)

\* variant of Suspend: the wait is left running in the background and the
\* loop goes on to the next action
Suspend_detached(ch, pc, attempt, calls, snapshot, c, n) ==
    /\ chat' = [ch EXCEPT !.pc = "run", !.i = @ + 1, !.attempt = 0, !.calls = <<>>,
                          !.results = Append(@, ActionResult("delete", FALSE, NoData,
                                                             NoError, FALSE))]
    /\ cal' = c
    /\ nextEventId' = n
    /\ event' = ChatStep(pc)
    /\ NoJournal

\* the coroutine suspends inside a delete (asyncio.sleep)
Suspend(ch, pc, attempt, calls, snapshot, c, n) ==
    /\ chat' = [ch EXCEPT !.pc = pc, !.attempt = attempt, !.calls = calls,
                          !.event_to_delete = snapshot]
    /\ cal' = c
    /\ nextEventId' = n
    /\ event' = ChatStep(pc)
    /\ NoJournal

\* delete_verified: agent_routes.py:300-312
Confirmed(ch, calls, snapshot, c, n) ==
    LET action == ch.actions[ch.i]
    IN  /\ NextAction(ch, ActionResult("delete", TRUE,
                               [deleted |-> action.event_id,
                                summary |-> snapshot["summary"], verified |-> TRUE],
                               NoError, TRUE),
                      calls, nextRecId, c, n)
        /\ Journal("delete", action.event_id, [deleted_event |-> snapshot])

\* not delete_verified: agent_routes.py:313-320
Failed(ch, calls, snapshot, c, n) ==
    LET action == ch.actions[ch.i]
    IN  /\ NextAction(ch, ActionResult("delete", FALSE,
                               [failed_event_id |-> action.event_id,
                                event_summary |-> snapshot["summary"],
                                retry_needed |-> TRUE],
                               "Failed to delete", FALSE),
                      calls, 0, c, n)
        /\ NoJournal

\* variant of DeleteAttempt: a NotFound from the delete call is verified
\* like an acknowledged delete
DeleteAttempt_verify_gone(ch, attempt, calls, snapshot, c, n) ==
    LET id == ch.actions[ch.i].event_id
    IN  \E out \in svc_delete(c, n, id) :
           LET calls2 == Append(calls, Call("delete", id, NoData, out.status))
           IN  IF out.status \in {"ok", "notfound"}
               THEN Suspend(ch, "verify", attempt, calls2, snapshot, out.cal, out.next)
               ELSE IF attempt < max_attempts - 1
               THEN Suspend(ch, "backoff", attempt, calls2, snapshot, out.cal, out.next)
               ELSE Failure(ch, out.status, calls2, out.cal, out.next)

\* variant of DeleteAttempt: a backend error of the delete call ends the
\* action on the first attempt
DeleteAttempt_single(ch, attempt, calls, snapshot, c, n) ==
    LET id == ch.actions[ch.i].event_id
    IN  \E out \in svc_delete(c, n, id) :
           LET calls2 == Append(calls, Call("delete", id, NoData, out.status))
           IN  IF out.status = "ok"
               THEN Suspend(ch, "verify", attempt, calls2, snapshot, out.cal, out.next)
               ELSE IF out.status = "notfound"
               THEN Confirmed(ch, calls2, snapshot, out.cal, out.next)
               ELSE Failure(ch, out.status, calls2, out.cal, out.next)

\* one iteration of the attempt loop up to its first await
\* (agent_routes.py:268-273 and 290-298)
DeleteAttempt(ch, attempt, calls, snapshot, c, n) ==
    LET id == ch.actions[ch.i].event_id
    IN  \E out \in svc_delete(c, n, id) :
           LET calls2 == Append(calls, Call("delete", id, NoData, out.status))
           IN  IF out.status = "ok"
               THEN Suspend(ch, "verify", attempt, calls2, snapshot, out.cal, out.next)
               ELSE IF out.status = "notfound"
               THEN Confirmed(ch, calls2, snapshot, out.cal, out.next)
               ELSE IF attempt < max_attempts - 1
               THEN Suspend(ch, "backoff", attempt, calls2, snapshot, out.cal, out.next)
               ELSE Failure(ch, out.status, calls2, out.cal, out.next)

\* variant of RunDelete: a NotFound pre-check is reported like a failed
\* verification, asking for a re-plan
RunDelete_flag_missing ==
    /\ Running
    /\ \E a \in ActionsOf("delete") :
         LET id == a.event_id
         IN  \E o1 \in svc_get(cal, nextEventId, id) :
                LET c1 == <<Call("get", id, NoData, o1.status)>>
                IN  IF o1.status = "notfound"
                    THEN /\ NextAction(Reached(a),
                                ActionResult("delete", FALSE,
                                    [failed_event_id |-> id, retry_needed |-> TRUE],
                                    "Event not found. It may have already been deleted.",
                                    FALSE),
                                c1, 0, o1.cal, o1.next)
                         /\ NoJournal
                    ELSE IF o1.status # "ok"
                    THEN Failure(Reached(a), o1.status, c1, o1.cal, o1.next)
                    ELSE DeleteAttempt(Reached(a), 0, c1, o1.event, o1.cal, o1.next)

\* isinstance(action, DeleteEventAction): pre-check and first attempt
\* (agent_routes.py:252-273)
RunDelete ==
    /\ Running
    /\ \E a \in ActionsOf("delete") :
         LET id == a.event_id
         IN  \E o1 \in svc_get(cal, nextEventId, id) :
                LET c1 == <<Call("get", id, NoData, o1.status)>>
                IN  IF o1.status = "notfound"
                    THEN /\ NextAction(Reached(a),
                                ActionResult("delete", FALSE, NoData,
                                    "Event not found. It may have already been deleted.",
                                    FALSE),
                                c1, 0, o1.cal, o1.next)
                         /\ NoJournal
                    ELSE IF o1.status # "ok"
                    THEN Failure(Reached(a), o1.status, c1, o1.cal, o1.next)
                    ELSE DeleteAttempt(Reached(a), 0, c1, o1.event, o1.cal, o1.next)

\* variant of VerifyStep: a NotFound verification with attempts left backs
\* off and deletes again instead of confirming
VerifyStep_recheck ==
    /\ chat.pc = "verify"
    /\ LET id == chat.actions[chat.i].event_id
       IN  \E out \in svc_get(cal, nextEventId, id) :
              LET calls2 == Append(chat.calls, Call("get", id, NoData, out.status))
              IN  IF chat.attempt < max_attempts - 1 /\ out.status \in {"ok", "notfound"}
                  THEN Suspend(chat, "backoff", chat.attempt, calls2,
                               chat.event_to_delete, out.cal, out.next)
                  ELSE IF out.status = "ok"
                  THEN Failed(chat, calls2, chat.event_to_delete, out.cal, out.next)
                  ELSE Confirmed(chat, calls2, chat.event_to_delete, out.cal, out.next)

\* variant of VerifyStep: an event still present after the last attempt is
\* taken as deleted
VerifyStep_optimistic ==
    /\ chat.pc = "verify"
    /\ LET id == chat.actions[chat.i].event_id
       IN  \E out \in svc_get(cal, nextEventId, id) :
              LET calls2 == Append(chat.calls, Call("get", id, NoData, out.status))
              IN  IF out.status = "ok" /\ chat.attempt < max_attempts - 1
                  THEN Suspend(chat, "backoff", chat.attempt, calls2,
                               chat.event_to_delete, out.cal, out.next)
                  ELSE Confirmed(chat, calls2, chat.event_to_delete, out.cal, out.next)

\* variant of VerifyStep: an event still present fails the action on the
\* first attempt
VerifyStep_no_retry ==
    /\ chat.pc = "verify"
    /\ LET id == chat.actions[chat.i].event_id
       IN  \E out \in svc_get(cal, nextEventId, id) :
              LET calls2 == Append(chat.calls, Call("get", id, NoData, out.status))
              IN  IF out.status = "ok"
                  THEN Failed(chat, calls2, chat.event_to_delete, out.cal, out.next)
                  ELSE Confirmed(chat, calls2, chat.event_to_delete, out.cal, out.next)

\* variant of VerifyStep: a backend error of the verification fetch reaches
\* the action boundary
VerifyStep_strict ==
    /\ chat.pc = "verify"
    /\ LET id == chat.actions[chat.i].event_id
       IN  \E out \in svc_get(cal, nextEventId, id) :
              LET calls2 == Append(chat.calls, Call("get", id, NoData, out.status))
              IN  IF out.status = "ok"
                  THEN IF chat.attempt < max_attempts - 1
                       THEN Suspend(chat, "backoff", chat.attempt, calls2,
                                    chat.event_to_delete, out.cal, out.next)
                       ELSE Failed(chat, calls2, chat.event_to_delete, out.cal, out.next)
                  ELSE IF out.status = "notfound"
                  THEN Confirmed(chat, calls2, chat.event_to_delete, out.cal, out.next)
                  ELSE Failure(chat, out.status, calls2, out.cal, out.next)

\* variant of VerifyStep: the test for remaining attempts is off by one
VerifyStep_extra_attempt ==
    /\ chat.pc = "verify"
    /\ LET id == chat.actions[chat.i].event_id
       IN  \E out \in svc_get(cal, nextEventId, id) :
              LET calls2 == Append(chat.calls, Call("get", id, NoData, out.status))
              IN  IF out.status = "ok"
                  THEN IF chat.attempt < max_attempts
                       THEN Suspend(chat, "backoff", chat.attempt, calls2,
                                    chat.event_to_delete, out.cal, out.next)
                       ELSE Failed(chat, calls2, chat.event_to_delete, out.cal, out.next)
                  ELSE Confirmed(chat, calls2, chat.event_to_delete, out.cal, out.next)

\* after asyncio.sleep(0.5): the verification fetch (agent_routes.py:275-289)
VerifyStep ==
    /\ chat.pc = "verify"
    /\ LET id == chat.actions[chat.i].event_id
       IN  \E out \in svc_get(cal, nextEventId, id) :
              LET calls2 == Append(chat.calls, Call("get", id, NoData, out.status))
              IN  IF out.status = "ok"
                  THEN IF chat.attempt < max_attempts - 1
                       THEN Suspend(chat, "backoff", chat.attempt, calls2,
                                    chat.event_to_delete, out.cal, out.next)
                       ELSE Failed(chat, calls2, chat.event_to_delete, out.cal, out.next)
                  ELSE Confirmed(chat, calls2, chat.event_to_delete, out.cal, out.next)

\* after asyncio.sleep(1): continue with the next attempt
BackoffStep ==
    /\ chat.pc = "backoff"
    /\ DeleteAttempt(chat, chat.attempt + 1, chat.calls, chat.event_to_delete,
                     cal, nextEventId)

\* agent_routes.py:351
failed_deletes(results) ==
    {k \in DOMAIN results : dict_get(results[k].data, "retry_needed")}

\* agent_routes.py:420
successful_retries(results) ==
    {k \in DOMAIN results : dict_get(results[k].data, "was_retry") /\ results[k].success}

\* the loop is over: respond, or fetch the events again and await the
\* interpreter a second time (agent_routes.py:350-379, 430-434)
FinishFirstPass ==
    /\ chat.pc = "run"
    /\ chat.i > chat.n
    /\ IF failed_deletes(chat.results) = {}
       THEN Respond(200, "m1", chat.results)
       ELSE \E out \in svc_list(cal, nextEventId) :
               /\ chat' = [chat EXCEPT !.pc = "llm2"]
               /\ event' = ChatStep("replan")
    /\ UNCHANGED <<history, nextRecId, added, cal, nextEventId, undone>>

\* variant of ReplanFailed: the failure of the second interpreter call
\* aborts the request like a failure of the first
ReplanFailed_abort ==
    /\ chat' = ChatIdle(chat.drawn)
    /\ event' = [kind |-> "chat_error", status |-> 502, output |-> TransportFailure,
                 token |-> chat.access_token]

\* except Exception: pass (agent_routes.py:427-428), then the final return
\* with the message of the first interpreter response (430-434)
ReplanFailed ==
    /\ chat' = ChatIdle(chat.drawn)
    /\ event' = [kind |-> "chat_response", status |-> 200, message |-> "m1",
                 results |-> chat.results, token |-> chat.access_token,
                 replan |-> "failed"]

\* the second get_calendar_actions returns or raises (agent_routes.py:370-382, 427-434)
LlmSecond ==
    /\ chat.pc = "llm2"
    /\ \E out \in InterpreterOutcomes :
          IF get_calendar_actions(out) = "LLMResponse"
          THEN \E len \in 0..(MaxActions - chat.drawn) :
                  /\ chat' = [chat EXCEPT !.pc = "rrun", !.retry_n = len, !.j = 1,
                                          !.drawn = @ + len]
                  /\ event' = ChatStep("llm2")
          ELSE ReplanFailed
    /\ UNCHANGED <<history, nextRecId, added, cal, nextEventId, undone>>

\* the coroutine with action a as the one the second-pass loop has reached
RetryReached(a) == [chat EXCEPT !.retry_actions = Append(@, a)]

\* results.append(retry_result) and on to the next action of the second pass
NextRetry(ch, result, calls, journaled, c, n) ==
    /\ cal' = c
    /\ nextEventId' = n
    /\ chat' = [ch EXCEPT !.results = Append(@, result), !.j = @ + 1,
                          !.pc = "rrun", !.calls = <<>>,
                          !.event_to_delete = NoEvent]
    /\ event' = ActionDone("retry", ch.retry_actions[ch.j], calls, journaled)

\* variant of RetryHttpError: a delete found already gone is reported as
\* undoable
RetryHttpError_undoable(ch, status, calls, c, n) ==
    /\ NextRetry(ch,
                 IF status = "notfound"
                 THEN ActionResult("delete", TRUE,
                                   [deleted |-> ch.retry_actions[ch.j].event_id,
                                    already_deleted |-> TRUE],
                                   NoError, TRUE)
                 ELSE ActionResult("delete", FALSE, NoData, handle_google_error(status),
                                   FALSE),
                 calls, 0, c, n)
    /\ NoJournal

\* except HttpError of agent_routes.py:408-413
RetryHttpError(ch, status, calls, c, n) ==
    /\ NextRetry(ch,
                 IF status = "notfound"
                 THEN ActionResult("delete", TRUE,
                                   [deleted |-> ch.retry_actions[ch.j].event_id,
                                    already_deleted |-> TRUE],
                                   NoError, FALSE)
                 ELSE ActionResult("delete", FALSE, NoData, handle_google_error(status),
                                   FALSE),
                 calls, 0, c, n)
    /\ NoJournal

\* variant of SkipRetryAction: an action that is passed over is reported
\* with a result
SkipRetryAction_reported ==
    /\ chat.pc = "rrun"
    /\ chat.j <= chat.retry_n
    /\ \E a \in LLMActions :
          /\ a.action # "delete"
          /\ chat' = [RetryReached(a) EXCEPT !.j = @ + 1,
                         !.results = Append(@, ActionResult(a.action, FALSE, NoData,
                                                            NoError, FALSE))]
    /\ event' = ChatStep("skip")
    /\ UNCHANGED <<history, nextRecId, added, cal, nextEventId, undone>>

\* a non-delete action of the second response is passed over (agent_routes.py:383)
SkipRetryAction ==
    /\ chat.pc = "rrun"
    /\ chat.j <= chat.retry_n
    /\ \E a \in LLMActions :
          /\ a.action # "delete"
          /\ chat' = [RetryReached(a) EXCEPT !.j = @ + 1]
    /\ event' = ChatStep("skip")
    /\ UNCHANGED <<history, nextRecId, added, cal, nextEventId, undone>>

\* a delete of the second response, up to its await (agent_routes.py:384-390)
RunRetryDelete ==
    /\ chat.pc = "rrun"
    /\ chat.j <= chat.retry_n
    /\ \E a \in ActionsOf("delete") :
         LET id == a.event_id
         IN  \E o1 \in svc_get(cal, nextEventId, id) :
                LET c1 == <<Call("get", id, NoData, o1.status)>>
                IN  IF o1.status # "ok"
                    THEN RetryHttpError(RetryReached(a), o1.status, c1, o1.cal, o1.next)
                    ELSE \E o2 \in svc_delete(o1.cal, o1.next, id) :
                           LET c2 == Append(c1, Call("delete", id, NoData, o2.status))
                           IN  IF o2.status # "ok"
                               THEN RetryHttpError(RetryReached(a), o2.status, c2,
                                                   o2.cal, o2.next)
                               ELSE Suspend(RetryReached(a), "rverify", 0, c2, o1.event,
                                            o2.cal, o2.next)

\* after asyncio.sleep(0.5) in the second pass (agent_routes.py:392-407, 417)
RetryVerifyStep ==
    /\ chat.pc = "rverify"
    /\ LET id == chat.retry_actions[chat.j].event_id
           snapshot == chat.event_to_delete
       IN  \E out \in svc_get(cal, nextEventId, id) :
              LET calls2 == Append(chat.calls, Call("get", id, NoData, out.status))
              IN  IF out.status = "ok"
                  THEN /\ NextRetry(chat, ActionResult("delete", FALSE, NoData,
                                                       "Retry failed", FALSE),
                                    calls2, 0, out.cal, out.next)
                       /\ NoJournal
                  ELSE IF out.status = "notfound"
                  THEN /\ NextRetry(chat, ActionResult("delete", TRUE,
                                        [deleted |-> id, summary |-> snapshot["summary"],
                                         verified |-> TRUE, was_retry |-> TRUE],
                                        NoError, TRUE),
                                    calls2, nextRecId, out.cal, out.next)
                       /\ Journal("delete", id, [deleted_event |-> snapshot])
                  ELSE /\ NextRetry(chat, ActionResult("delete", FALSE, NoData, NoError,
                                                       FALSE),
                                    calls2, 0, out.cal, out.next)
                       /\ NoJournal

\* variant of FinishReplan: a second pass that confirmed nothing plans again
FinishReplan_again ==
    /\ chat.pc = "rrun"
    /\ chat.j > chat.retry_n
    /\ IF successful_retries(chat.results) # {} \/ chat.drawn >= MaxActions
       THEN Respond(200, IF successful_retries(chat.results) # {} THEN "m2" ELSE "m1",
                    chat.results)
       ELSE /\ chat' = [chat EXCEPT !.pc = "llm2"]
            /\ event' = ChatStep("replan")
    /\ UNCHANGED <<history, nextRecId, added, cal, nextEventId, undone>>

\* variant of FinishReplan: any successful result of the second pass counts
\* as a successful retry
FinishReplan_any_success ==
    /\ chat.pc = "rrun"
    /\ chat.j > chat.retry_n
    /\ Respond(200,
               IF \E k \in (chat.n + 1)..Len(chat.results) : chat.results[k].success
               THEN "m2" ELSE "m1",
               chat.results)
    /\ UNCHANGED <<history, nextRecId, added, cal, nextEventId, undone>>

\* variant of FinishReplan: "general recursion": a second pass that confirmed
\* nothing asks the interpreter again
FinishReplan_recursive ==
    /\ chat.pc = "rrun"
    /\ chat.j > chat.retry_n
    /\ IF successful_retries(chat.results) # {}
       THEN Respond(200, "m2", chat.results)
       ELSE /\ chat' = [chat EXCEPT !.pc = "llm2", !.retry_n = 0, !.j = 0]
            /\ event' = ChatStep("replan")
    /\ UNCHANGED <<history, nextRecId, added, cal, nextEventId, undone>>

\* the second pass is over (agent_routes.py:419-434)
FinishReplan ==
    /\ chat.pc = "rrun"
    /\ chat.j > chat.retry_n
    /\ Respond(200, IF successful_retries(chat.results) # {} THEN "m2" ELSE "m1",
               chat.results)
    /\ UNCHANGED <<history, nextRecId, added, cal, nextEventId, undone>>

---------------------------------------------------------------------------
(* The server *)

InitialEvent == stored(create_body("a"), assigned(1))

Init ==
    /\ history = EmptyMap
    /\ nextRecId = 1
    /\ added = EmptyMap
    /\ cal = [id \in EventIds |-> IF id = 1 THEN InitialEvent ELSE NoEvent]
    /\ nextEventId = 2
    /\ chat = ChatIdle(0)
    /\ undone = {}
    /\ event = [kind |-> "init"]

Next ==
    \/ \E tok \in Callers : ChatStart(tok)
    \/ LlmFirst
    \/ RunCreate
    \/ RunUpdate
    \/ RunDelete
    \/ RunList
    \/ RunGet
    \/ VerifyStep
    \/ BackoffStep
    \/ FinishFirstPass
    \/ LlmSecond
    \/ SkipRetryAction
    \/ RunRetryDelete
    \/ RetryVerifyStep
    \/ FinishReplan
    \/ \E tok \in Callers : Undo(tok)

Spec == Init /\ [][Next]_vars

---------------------------------------------------------------------------
(* The store on its own: any caller, any record *)

\* action_type is an unvalidated str: a kind get_last accepts and one that it
\* must pass over
RecordTypes == {"create", "list"}

StoreEvent(op, tok, arg, ret) == [kind |-> op, token |-> tok, arg |-> arg, ret |-> ret]

StoreAdd(tok, action_type) ==
    /\ nextRecId <= MaxAdds
    /\ LET record == ActionRecord(nextRecId, action_type, 1, EmptyDict)
       IN  /\ history' = add(history, tok, record)
           /\ added' = note_added(added, tok, nextRecId)
           /\ nextRecId' = nextRecId + 1
           /\ event' = StoreEvent("add", tok, record, NoRecord)
    /\ UNCHANGED <<cal, nextEventId, chat, undone>>

StoreGetLast(tok) ==
    /\ event' = StoreEvent("get_last", tok, 0, get_last(history, tok))
    /\ UNCHANGED <<history, nextRecId, added, cal, nextEventId, chat, undone>>

StoreMarkRolledBack(tok, action_id) ==
    /\ history' = mark_rolled_back(history, tok, action_id)
    /\ event' = StoreEvent("mark_rolled_back", tok, action_id, NoRecord)
    /\ UNCHANGED <<nextRecId, added, cal, nextEventId, chat, undone>>

StoreGetHistory(tok, limit) ==
    /\ event' = StoreEvent("get_history", tok, limit, get_history(history, tok, limit))
    /\ UNCHANGED <<history, nextRecId, added, cal, nextEventId, chat, undone>>

NextStore ==
    \/ \E tok \in Tokens, ty \in RecordTypes : StoreAdd(tok, ty)
    \/ \E tok \in Tokens : StoreGetLast(tok)
    \/ \E tok \in Tokens, id \in 1..nextRecId : StoreMarkRolledBack(tok, id)
    \/ \E tok \in Tokens, limit \in 0..MaxLimit : StoreGetHistory(tok, limit)

SpecStore == Init /\ [][NextStore]_vars


---------------------------------------------------------------------------
(* Properties of the store (checked under SpecStore) *)

Undoable == {"create", "update", "delete"}

\* the journal of the session a token belongs to (empty when unknown)
JournalOf(h, tok) == IF get_key(tok) \in DOMAIN h THEN h[get_key(tok)] ELSE <<>>

\* positions of the undo-eligible records of a journal
Eligible(dq) ==
    {i \in DOMAIN dq : ~dq[i].rolled_back /\ dq[i].action_type \in Undoable}

\* C2: after any sequence of add calls on a session of a store with capacity
\* max_history, the journal holds at most max_history records, and they are
\* the min(k, max_history) most recently added ones, most recent first (k the
\* number of adds on that session).
C2_JournalIsNewestWindow ==
    /\ DOMAIN history = DOMAIN added
    /\ \A key \in DOMAIN history :
          /\ Len(history[key]) <= max_history
          /\ Len(history[key]) = Min(Len(added[key]), max_history)
          /\ \A i \in DOMAIN history[key] : history[key][i].id = added[key][i]

\* a session has received max_history + 1 adds: the oldest record is gone
C2_Witness ==
    \E key \in DOMAIN history :
        /\ Len(added[key]) = max_history + 1
        /\ Len(history[key]) = max_history
        /\ \A i \in DOMAIN history[key] : history[key][i].id # added[key][max_history + 1]

\* C3: get_last returns the most recently added record of the session that
\* is not rolled back and whose type is create, update or delete, and None
\* when the session is unknown, its journal empty or no record is eligible.
C3_GetLastIsNewestEligible ==
    event.kind = "get_last" =>
        LET dq == JournalOf(history, event.token)
        IN  IF Eligible(dq) = {}
            THEN event.ret = NoRecord
            ELSE \E i \in Eligible(dq) :
                    /\ event.ret = dq[i]
                    /\ \A j \in Eligible(dq) : dq[j].id <= dq[i].id

\* get_last passed over a more recent record and returned an older one
C3_Witness ==
    /\ event.kind = "get_last"
    /\ event.ret # NoRecord
    /\ \E i \in DOMAIN JournalOf(history, event.token) :
          /\ JournalOf(history, event.token)[i].id > event.ret.id
          /\ JournalOf(history, event.token)[i].rolled_back

\* a record with this id is in the session's journal
HasRecord(h, tok, id) == \E i \in DOMAIN JournalOf(h, tok) : JournalOf(h, tok)[i].id = id

\* C4: mark_rolled_back is idempotent: a call that repeats the previous call
\* (same session, same id) leaves the store as the previous call left it, and
\* a call with an id absent from the session, or for an unknown session,
\* changes nothing in the store.
C4_MarkRolledBackIdempotent ==
    [][event'.kind = "mark_rolled_back" =>
          /\ (/\ event.kind = "mark_rolled_back"
              /\ get_key(event.token) = get_key(event'.token)
              /\ event.arg = event'.arg) => history' = history
          /\ ~HasRecord(history, event'.token, event'.arg) => history' = history]_vars

\* mark_rolled_back has set the flag of a record
C4_Witness ==
    /\ event.kind = "mark_rolled_back"
    /\ \E i \in DOMAIN JournalOf(history, event.token) :
          /\ JournalOf(history, event.token)[i].id = event.arg
          /\ JournalOf(history, event.token)[i].rolled_back


---------------------------------------------------------------------------
(* Properties of the server (checked under Spec) *)

LastOf(q) == q[Len(q)]

\* the failure of the action's last backend call reaches the per-action
\* boundary: any failed call of a create, update, list or get; for a delete,
\* a failed pre-check or a delete call that fails (other than NotFound) on
\* the last attempt
ReachesBoundary(action, calls) ==
    IF action.action = "delete"
    THEN \/ Len(calls) = 1 /\ calls[1].status # "ok"
         \/ /\ LastOf(calls).op = "delete"
            /\ LastOf(calls).status = "other"
            /\ Cardinality({k \in DOMAIN calls : calls[k].op = "delete"}) = max_attempts
    ELSE LastOf(calls).status # "ok"

\* C1: the first pass produces exactly one result per action, result k for
\* action k, whatever backend calls fail; a failure that reaches the boundary
\* of an action is recorded in that action's result (success false, error
\* set) and the loop goes on to the next action, so that the pass ends with
\* as many results as the interpreter returned actions.
C1_OneResultPerAction ==
    /\ chat.pc \in {"run", "verify", "backoff"} =>
          /\ chat.i <= chat.n + 1
          /\ Len(chat.results) = chat.i - 1
          /\ \A k \in DOMAIN chat.results :
                chat.results[k].action = chat.actions[k].action
          /\ (chat.pc = "run" /\ chat.i > chat.n) => Len(chat.results) = chat.n
    /\ (event.kind = "chat" /\ event.step = "action" /\ event.pass = "first") =>
          /\ chat.pc = "run"
          /\ LastOf(chat.results).action = event.action.action
          /\ ReachesBoundary(event.action, event.calls) =>
                /\ ~LastOf(chat.results).success
                /\ LastOf(chat.results).error # NoError

\* a pass of two actions is over: the first failed, the second succeeded
C1_Witness ==
    /\ chat.pc = "run"
    /\ chat.n = 2
    /\ chat.i > chat.n
    /\ ~chat.results[1].success
    /\ chat.results[1].error # NoError
    /\ chat.results[2].success

\* the record with this id is in the session's journal and marked rolled back
RolledBack(h, tok, id) ==
    \E i \in DOMAIN JournalOf(h, tok) :
        JournalOf(h, tok)[i].id = id /\ JournalOf(h, tok)[i].rolled_back

UndoOf(kind) ==
    /\ event.kind = "undo"
    /\ event.target # NoRecord
    /\ event.target.action_type = kind

\* C5: when the most recent undo-eligible record is a create, undo issues
\* exactly one backend call, a delete of the record's event_id; when the call
\* succeeds the record is marked rolled back and the response reports success
\* with the deleted id.
C5_UndoCreateDeletes ==
    UndoOf("create") =>
        /\ Len(event.calls) = 1
        /\ event.calls[1].op = "delete"
        /\ event.calls[1].id = event.target.event_id
        /\ event.calls[1].status = "ok" =>
              /\ RolledBack(history, event.token, event.target.id)
              /\ event.response.success
              /\ event.response.data = [deleted_event_id |-> event.target.event_id]

C5_Witness ==
    /\ UndoOf("create")
    /\ event.calls[1].status = "ok"
    /\ ~present(cal, event.target.event_id)

\* C6: when the most recent undo-eligible record is a delete, undo issues one
\* backend insert whose body is the stored deleted_event snapshot without the
\* backend-assigned fields and with every other field unchanged; when the
\* call succeeds the new event has an identifier other than the original, the
\* record is marked rolled back and the response reports the new id.
C6_UndoDeleteRecreates ==
    UndoOf("delete") =>
        LET snapshot == event.target.rollback_data["deleted_event"]
            body == event.calls[1].body
        IN  /\ Len(event.calls) = 1
            /\ event.calls[1].op = "insert"
            /\ DOMAIN body = (DOMAIN snapshot) \ BackendFields
            /\ \A f \in DOMAIN body : body[f] = snapshot[f]
            /\ event.calls[1].status = "ok" =>
                  /\ event.response.success
                  /\ event.response.data["new_event_id"] # event.target.event_id
                  /\ present(cal, event.response.data["new_event_id"])
                  /\ cal[event.response.data["new_event_id"]]["summary"] = snapshot["summary"]
                  /\ RolledBack(history, event.token, event.target.id)

C6_Witness ==
    /\ UndoOf("delete")
    /\ event.calls[1].status = "ok"
    /\ "id" \in DOMAIN event.target.rollback_data["deleted_event"]

\* C7: when the most recent undo-eligible record is an update, undo issues
\* one backend update of the record's event_id whose body is the whole
\* stored original_event snapshot; when the call succeeds the backend event
\* equals the snapshot and the record is marked rolled back.
C7_UndoUpdateRestores ==
    UndoOf("update") =>
        LET snapshot == event.target.rollback_data["original_event"]
        IN  /\ Len(event.calls) = 1
            /\ event.calls[1].op = "update"
            /\ event.calls[1].id = event.target.event_id
            /\ event.calls[1].body = snapshot
            /\ event.calls[1].status = "ok" =>
                  /\ cal[event.target.event_id] = snapshot
                  /\ event.response.success
                  /\ RolledBack(history, event.token, event.target.id)

C7_Witness ==
    /\ UndoOf("update")
    /\ event.calls[1].status = "ok"
    /\ cal[event.target.event_id]["summary"] = "a"

\* C8: when get_last returns None for the session, undo answers "No actions
\* to undo" in an ordinary response, issues no backend call and leaves the
\* history store (and the calendar) unchanged.
C8_NothingToUndo ==
    [][(event'.kind = "undo" /\ get_last(history, event'.token) = NoRecord) =>
          /\ event'.response.message = "No actions to undo"
          /\ event'.target = NoRecord
          /\ event'.calls = <<>>
          /\ history' = history
          /\ cal' = cal]_vars

\* undo found a journal in which every record is rolled back
C8_Witness ==
    /\ event.kind = "undo"
    /\ event.target = NoRecord
    /\ JournalOf(history, event.token) # <<>>

\* C9: after a successful undo of a record no later undo targets that record
\* again; in a session whose journal is a single create record, the undo that
\* follows its successful undo answers "No actions to undo".
C9_UndoneNeverTargetedAgain ==
    [][event'.kind = "undo" =>
          /\ event'.target # NoRecord => event'.target.id \notin undone
          /\ (/\ event.kind = "undo"
              /\ event.target # NoRecord
              /\ event.target.action_type = "create"
              /\ event.response.success
              /\ Len(JournalOf(history, event.token)) = 1
              /\ get_key(event'.token) = get_key(event.token))
             => event'.response.message = "No actions to undo"]_vars

\* the single create of a session has been undone and the next undo found nothing
C9_Witness ==
    /\ event.kind = "undo"
    /\ event.target = NoRecord
    /\ Len(JournalOf(history, event.token)) = 1
    /\ JournalOf(history, event.token)[1].action_type = "create"
    /\ JournalOf(history, event.token)[1].id \in undone

\* ids and rolled_back flags of a session's journal, in order
Flags(h, tok) ==
    [i \in DOMAIN JournalOf(h, tok) |->
        <<JournalOf(h, tok)[i].id, JournalOf(h, tok)[i].rolled_back>>]

\* C10: when the backend call made by undo fails, undo returns a structured
\* response with success false, marks no record rolled back, adds no journal
\* record and makes no second backend call; the record is still what
\* get_last returns, so it is the target of the next undo.
C10_FailedUndoKeepsTarget ==
    [][(/\ event'.kind = "undo"
        /\ event'.target # NoRecord
        /\ event'.calls # <<>>
        /\ event'.calls[1].status # "ok") =>
          /\ ~event'.response.success
          /\ event'.response.message = "Failed to undo"
          /\ Len(event'.calls) = 1
          /\ DOMAIN history' = DOMAIN history
          /\ \A tok \in Tokens : Flags(history', tok) = Flags(history, tok)
          /\ added' = added
          /\ undone' = undone
          /\ get_last(history', event'.token) # NoRecord
          /\ get_last(history', event'.token).id = event'.target.id]_vars

\* an undo failed at the backend and its record is still not rolled back
C10_Witness ==
    /\ event.kind = "undo"
    /\ event.target # NoRecord
    /\ event.calls # <<>>
    /\ event.calls[1].status # "ok"
    /\ ~RolledBack(history, event.token, event.target.id)

---------------------------------------------------------------------------
(* The delete protocol of the first pass *)

\* the observation is a finished first-pass action of this kind
FirstPassDone(e, kind) ==
    /\ e.kind = "chat"
    /\ e.step = "action"
    /\ e.pass = "first"
    /\ e.action.action = kind

\* how the protocol of a delete action ended, read from its backend calls
\* (calls[1] is the pre-check fetch):
\*   "notfound"  the pre-check reported NotFound
\*   "error"     a backend error reached the action boundary
\*   "confirmed" a delete call reported NotFound, or a verification fetch
\*               did not return the event
\*   "failed"    the last verification fetch returned the event
ProtocolEnd(calls) ==
    IF Len(calls) = 1
    THEN (IF calls[1].status = "notfound" THEN "notfound" ELSE "error")
    ELSE IF LastOf(calls).op = "delete"
         THEN (IF LastOf(calls).status = "notfound" THEN "confirmed" ELSE "error")
         ELSE (IF LastOf(calls).status = "ok" THEN "failed" ELSE "confirmed")

\* the snapshot the pre-check of the delete finished by this step fetched:
\* the event as stored when the action began (the step begins at the loop),
\* or the one the suspended coroutine holds
PreCheckSnapshot ==
    IF chat.pc = "run" THEN cal[event'.action.event_id] ELSE chat.event_to_delete

\* C11: a first-pass delete journals a delete record, with the pre-check
\* snapshot as rollback payload, and has success and can_undo true, if and
\* only if its protocol ends in Confirmed; when the protocol ends in Failed
\* the result has success false and retry_needed true, carries the event id
\* and summary, and nothing is journaled.
C11_DeleteJournalsIffConfirmed ==
    [][FirstPassDone(event', "delete") =>
          LET r == LastOf(chat'.results)
              id == event'.action.event_id
              end == ProtocolEnd(event'.calls)
          IN  /\ (end = "confirmed") <=> (event'.journaled # 0)
              /\ (end = "confirmed") <=> (r.success /\ r.can_undo)
              /\ r.success <=> r.can_undo
              /\ end = "confirmed" =>
                    /\ history' = add(history, chat.access_token,
                                      [id |-> nextRecId, timestamp |-> nextRecId,
                                       action_type |-> "delete", event_id |-> id,
                                       rollback_data |-> [deleted_event |-> PreCheckSnapshot],
                                       rolled_back |-> FALSE])
                    /\ PreCheckSnapshot # NoEvent
                    /\ event'.journaled = nextRecId
              /\ end # "confirmed" => history' = history
              /\ end = "failed" =>
                    /\ ~r.success
                    /\ r.data = [failed_event_id |-> id,
                                 event_summary |-> PreCheckSnapshot["summary"],
                                 retry_needed |-> TRUE]]_vars

\* a first-pass delete was confirmed by a verification fetch and journaled
C11_Witness ==
    /\ FirstPassDone(event, "delete")
    /\ ProtocolEnd(event.calls) = "confirmed"
    /\ Len(event.calls) >= 3
    /\ event.journaled # 0
    /\ LastOf(chat.results).can_undo
    /\ JournalOf(history, chat.access_token)[1].id = event.journaled
    /\ "deleted_event" \in DOMAIN JournalOf(history, chat.access_token)[1].rollback_data

\* the backend calls of an action as <<operation, status>> pairs
Trace(calls) == [k \in DOMAIN calls |-> <<calls[k].op, calls[k].status>>]

\* positions of the calls of one operation
CallsOf(calls, op) == {k \in DOMAIN calls : calls[k].op = op}

\* the verification fetches of a delete: every fetch after the pre-check
Verifications(calls) == CallsOf(calls, "get") \ {1}

\* every delete call succeeds, the first verification finds the event, the
\* second reports NotFound
PresentThenNotFound ==
    <<<<"get", "ok">>, <<"delete", "ok">>, <<"get", "ok">>,
      <<"delete", "ok">>, <<"get", "notfound">>>>

\* C12: a first-pass delete confirms at the first attempt whose verification
\* fetch reports NotFound (that fetch is the protocol's last call); when
\* every delete call succeeds and verification finds the event present and
\* then reports NotFound, the protocol is Confirmed after exactly two
\* verification fetches and two delete calls.
C12_ConfirmsAtFirstNotFound ==
    /\ chat.pc \in {"verify", "backoff"} =>
          \A k \in Verifications(chat.calls) : chat.calls[k].status = "ok"
    /\ FirstPassDone(event, "delete") =>
          /\ \A k \in Verifications(event.calls) :
                event.calls[k].status = "notfound" =>
                   /\ k = Len(event.calls)
                   /\ event.journaled # 0
                   /\ LastOf(chat.results).success
          /\ (/\ Len(event.calls) >= Len(PresentThenNotFound)
              /\ SubSeq(Trace(event.calls), 1, Len(PresentThenNotFound)) = PresentThenNotFound)
             => /\ Trace(event.calls) = PresentThenNotFound
                /\ Cardinality(Verifications(event.calls)) = 2
                /\ Cardinality(CallsOf(event.calls, "delete")) = 2
                /\ ProtocolEnd(event.calls) = "confirmed"
                /\ event.journaled # 0
                /\ LastOf(chat.results).success

\* the event was still there after the first delete and gone after the second
C12_Witness ==
    /\ FirstPassDone(event, "delete")
    /\ Trace(event.calls) = PresentThenNotFound
    /\ event.journaled # 0

---------------------------------------------------------------------------
(* The re-plan cycle *)

FirstPass == {"llm1", "run", "verify", "backoff"}
SecondPass == {"llm2", "rrun", "rverify"}

\* the step leaves the coroutine suspended in a new get_calendar_actions call
Invokes(pc) == chat'.pc = pc /\ chat.pc # pc

\* the first-pass loop is over
FirstPassOver == chat.pc = "run" /\ chat.i > chat.n

\* some first-pass result is flagged retry_needed
RetryNeeded ==
    \E k \in 1..chat.n : dict_get(chat.results[k].data, "retry_needed")

\* C13: within one request the interpreter is invoked first when the request
\* starts, a second time exactly when the first pass is over with at least
\* one result flagged retry_needed, and never a third time: the second pass
\* ends with the response whatever its deletes did.
C13_AtMostOneReplan ==
    [][/\ Invokes("llm1") => chat.pc = "idle"
       /\ Invokes("llm2") => FirstPassOver /\ RetryNeeded
       /\ (FirstPassOver /\ chat' # chat) =>
             IF RetryNeeded THEN Invokes("llm2") ELSE chat'.pc = "idle"
       /\ chat.pc \in SecondPass => chat'.pc \in SecondPass \cup {"idle"}
       /\ (chat.pc = "rrun" /\ chat.j > chat.retry_n /\ chat' # chat) =>
             /\ chat'.pc = "idle"
             /\ event'.kind = "chat_response"]_vars

\* the only delete of the second pass failed its verification and the
\* request was answered
C13_Witness ==
    /\ event.kind = "chat_response"
    /\ Len(event.results) = 2
    /\ dict_get(event.results[1].data, "retry_needed")
    /\ ~event.results[2].success
    /\ event.results[2].error = "Retry failed"

---------------------------------------------------------------------------
(* Failure of the interpreter *)

\* the text holds no object that LLMResponse accepts
Unparseable(out) == out \in LLMTexts /\ out.direct # "valid" /\ out.inner # "valid"

\* C14: when the first interpreter call of a request fails, the request is
\* aborted before any action executes: the calendar is not written, nothing
\* is journaled, and the failure is answered with 422 (malformed request)
\* for unparseable output and with 502 (upstream unavailable) for any other
\* failure.
C14_InterpreterFailureAborts ==
    [][event'.kind = "chat_error" =>
          /\ chat.pc = "llm1"
          /\ chat.results = <<>>
          /\ chat'.pc = "idle"
          /\ cal' = cal
          /\ nextEventId' = nextEventId
          /\ history' = history
          /\ added' = added
          /\ nextRecId' = nextRecId
          /\ event'.status = IF Unparseable(event'.output) THEN 422 ELSE 502]_vars

---------------------------------------------------------------------------
(* Order of execution within a request *)

IsPrefix(s, t) == Len(s) <= Len(t) /\ SubSeq(t, 1, Len(s)) = s

\* the event a backend call of this action may name (0: insert and list name none)
TargetOf(action) ==
    IF action.action \in {"create", "list"} THEN 0 ELSE action.event_id

\* C15: the actions of a request execute strictly in sequence.  A step of
\* the first-pass loop works on action i only: its backend calls continue
\* the calls action i has made so far and name that action's event; the
\* loop reaches action i+1 in the very step that ends action i with its
\* result and its journal write, and not while action i is suspended in a
\* wait of the delete protocol.
C15_ActionsRunInSequence ==
    [][(chat.pc \in {"run", "verify", "backoff"} /\ chat.i <= chat.n /\ chat' # chat) =>
          LET i == chat.i
              done == FirstPassDone(event', chat'.actions[i].action)
              calls == IF done THEN event'.calls ELSE chat'.calls
          IN  /\ chat.pc = "run" => chat.calls = <<>> /\ Len(chat.actions) = i - 1
              /\ chat.pc # "run" => chat'.actions[i] = chat.actions[i]
              /\ Len(chat'.actions) = i
              /\ IsPrefix(chat.calls, calls)
              /\ Len(calls) > Len(chat.calls)
              /\ \A k \in DOMAIN calls : calls[k].id = TargetOf(chat'.actions[i])
              /\ chat'.i \in {i, i + 1}
              /\ chat'.i = i + 1 <=> done
              /\ done =>
                    /\ event'.action = chat'.actions[i]
                    /\ Len(chat'.results) = i
                    /\ chat'.pc = "run"
                    /\ chat'.calls = <<>>
                    /\ nextRecId' \in {nextRecId, nextRecId + 1}
                    /\ nextRecId' = nextRecId + 1 <=> event'.journaled = nextRecId
              /\ ~done =>
                    /\ chat'.pc \in {"verify", "backoff"}
                    /\ chat'.actions[i].action = "delete"
                    /\ Len(chat'.results) = i - 1
                    /\ history' = history
                    /\ nextRecId' = nextRecId]_vars

\* the first of two actions is a delete suspended in its backoff wait
C15_Witness ==
    /\ chat.pc = "backoff"
    /\ chat.n = 2
    /\ chat.i = 1
    /\ Len(chat.actions) = 1
    /\ chat.results = <<>>

---------------------------------------------------------------------------
(* What is journaled *)

ReadOnly == {"list", "get"}

\* C16: every journaled record has action_type create, update or delete; a
\* list or get action adds no journal record, whether it succeeds or fails,
\* and its result has can_undo false.
C16_OnlyMutationsJournaled ==
    [][/\ \A key \in DOMAIN history' : \A i \in DOMAIN history'[key] :
             history'[key][i].action_type \in Undoable
       /\ \A k \in DOMAIN chat'.results :
             chat'.results[k].action \in ReadOnly => ~chat'.results[k].can_undo
       /\ (\E kind \in ReadOnly : FirstPassDone(event', kind)) =>
             /\ history' = history
             /\ added' = added
             /\ nextRecId' = nextRecId
             /\ event'.journaled = 0
             /\ ~LastOf(chat'.results).can_undo]_vars

\* a get succeeded in a session that has a journaled record
C16_Witness ==
    /\ FirstPassDone(event, "get")
    /\ LastOf(chat.results).success
    /\ JournalOf(history, chat.access_token) # <<>>

---------------------------------------------------------------------------
(* The rolled_back flag *)

\* the records of the journals, each with the key of its journal
Held(h) == UNION {{<<key, h[key][i]>> : i \in DOMAIN h[key]} : key \in DOMAIN h}

\* C17: rolled_back is monotone.  A record enters a journal with rolled_back
\* false, and a record whose flag is true keeps it true for as long as the
\* journal holds it, whatever operation runs.
C17_RolledBackMonotone ==
    [][/\ \A new \in Held(history') :
             (\A old \in Held(history) : old[2].id # new[2].id) => ~new[2].rolled_back
       /\ \A old \in Held(history) :
             old[2].rolled_back =>
                \A new \in Held(history') :
                    (new[1] = old[1] /\ new[2].id = old[2].id) => new[2].rolled_back]_vars

\* a record was journaled after an undo: the older record is still flagged
C17_Witness ==
    \E key \in DOMAIN history :
        /\ Len(history[key]) = 2
        /\ ~history[key][1].rolled_back
        /\ history[key][2].rolled_back

---------------------------------------------------------------------------
(* get_history (checked under SpecStore) *)

\* C18: get_history with a non-negative limit returns the first
\* min(limit, length) records of the session's journal, most recently added
\* first and rolled-back records included, returns the empty list for an
\* unknown session, and leaves the store as it was (no journal appears for
\* an unknown session).
C18_GetHistoryIsPrefix ==
    [][event'.kind = "get_history" =>
          LET key == get_key(event'.token)
              dq == JournalOf(history, event'.token)
              m == Min(event'.arg, Len(dq))
          IN  /\ event'.arg >= 0
              /\ Len(event'.ret) = m
              /\ \A i \in 1..m :
                    /\ event'.ret[i] = dq[i]
                    /\ event'.ret[i].id = added[key][i]
              /\ key \notin DOMAIN history => event'.ret = <<>>
              /\ history' = history
              /\ DOMAIN history' = DOMAIN history]_vars

\* a limit below the journal's length: the newest record alone is returned,
\* and it is rolled back
C18_Witness ==
    /\ event.kind = "get_history"
    /\ event.arg = 1
    /\ Len(JournalOf(history, event.token)) = 2
    /\ event.ret = <<JournalOf(history, event.token)[1]>>
    /\ event.ret[1].rolled_back

---------------------------------------------------------------------------
(* How far undo reaches *)

\* ids of the records flagged rolled back
Flagged(h) == {x[2].id : x \in {y \in Held(h) : y[2].rolled_back}}

\* a record of the session, newer than the target, has already been undone
NewerUndone(h, tok, target) ==
    \E i \in DOMAIN JournalOf(h, tok) :
        /\ JournalOf(h, tok)[i].id > target.id
        /\ JournalOf(h, tok)[i].id \in undone

\* C19 as stated: once the most recent undoable action has been undone, a
\* further undo does not reverse an older journaled action.
C19_NoMultiStepUndo ==
    [][(event'.kind = "undo" /\ event'.target # NoRecord /\ event'.response.success) =>
          ~NewerUndone(history, event'.token, event'.target)]_vars

\* C19 as amended: undo is single-step per call.  A call reverses at most
\* one journaled action, with one backend call: the most recent record of
\* the session that is not rolled back.  After that record has been undone a
\* further call reverses the next older eligible record, and a call answers
\* that there is nothing to undo only when the session has no eligible
\* record left.
C19_OneStepPerCall ==
    [][event'.kind = "undo" =>
          LET dq == JournalOf(history, event'.token)
          IN  /\ (event'.target = NoRecord) <=> (Eligible(dq) = {})
              /\ event'.target # NoRecord =>
                    /\ \E i \in Eligible(dq) :
                          /\ dq[i].id = event'.target.id
                          /\ \A j \in Eligible(dq) : j >= i
                    /\ Len(event'.calls) <= 1
                    /\ Flagged(history') \ Flagged(history)
                          = IF event'.response.success THEN {event'.target.id} ELSE {}
                    /\ undone' \ undone
                          = IF event'.response.success THEN {event'.target.id} ELSE {}]_vars

\* the second of two undo calls reversed the older of two journaled actions
C19_Witness ==
    /\ event.kind = "undo"
    /\ event.target # NoRecord
    /\ event.response.success
    /\ NewerUndone(history, event.token, event.target)

---------------------------------------------------------------------------
(* Concurrent requests on one session.  The handlers that use the store    *)
(* (chat_with_agent, undo_last_action, get_action_history) are coroutines  *)
(* of one event loop, and ActionHistory.add and get_last are plain methods *)
(* without an await.  Here the two methods are taken apart into their      *)
(* statements, run by several requests; under this specification chat maps *)
(* each request to its position and locals.                                *)

\* number of requests in flight
MaxTasks == 2
Requests == 1..MaxTasks

\* the credentials of the requests: distinct tokens, one session key
SameSession == {TokA, TokB}

\* a request between two store calls, suspended in an await of its handler
TaskAwait ==
    [pc |-> "await", access_token |-> <<>>, record |-> NoRecord, i |-> 0,
     snapshot |-> <<>>]

\* variant of CanSwitch: the requests are threads, pre-empted anywhere
CanSwitch_threads(r) == TRUE

\* the event loop can leave request r only where its coroutine awaits
CanSwitch(r) == chat[r].pc = "await"

\* variant of Runs: the backend client is awaited, so the event loop can
\* also leave a request that is about to make its backend call
Runs_at_calls(r) == \A u \in Requests \ {r} : chat[u].pc \in {"await", "undo_call"}

\* request r is the one the event loop runs
Runs(r) == \A u \in Requests \ {r} : CanSwitch(u)

ConcEvent(op, r, tok, ret, snapshot) ==
    [kind |-> op, request |-> r, token |-> tok, ret |-> ret, snapshot |-> snapshot]

\* add, action_history.py:30-31: key = self._get_key(...); if key not in self._history
AddLookup(r, tok, action_type) ==
    /\ Runs(r)
    /\ chat[r].pc = "await"
    /\ nextRecId <= MaxAdds
    /\ chat' = [chat EXCEPT ![r] =
                   [TaskAwait EXCEPT
                       !.pc = IF get_key(tok) \in DOMAIN history
                              THEN "add_append" ELSE "add_new",
                       !.access_token = tok,
                       !.record = ActionRecord(nextRecId, action_type, r, EmptyDict)]]
    /\ nextRecId' = nextRecId + 1
    /\ event' = [kind |-> "step", request |-> r]
    /\ UNCHANGED <<history, added, cal, nextEventId, undone>>

\* add, action_history.py:32: self._history[key] = deque(maxlen=self.max_history)
AddNew(r) ==
    /\ Runs(r)
    /\ chat[r].pc = "add_new"
    /\ LET key == get_key(chat[r].access_token)
       IN  history' = [k \in (DOMAIN history) \cup {key} |->
                          IF k = key THEN <<>> ELSE history[k]]
    /\ chat' = [chat EXCEPT ![r].pc = "add_append"]
    /\ event' = [kind |-> "step", request |-> r]
    /\ UNCHANGED <<nextRecId, added, cal, nextEventId, undone>>

\* add, action_history.py:33: self._history[key].appendleft(record)
AddAppend(r) ==
    /\ Runs(r)
    /\ chat[r].pc = "add_append"
    /\ LET key == get_key(chat[r].access_token)
       IN  history' = [history EXCEPT ![key] = appendleft(@, chat[r].record)]
    /\ added' = note_added(added, chat[r].access_token, chat[r].record.id)
    /\ chat' = [chat EXCEPT ![r] = TaskAwait]
    /\ event' = ConcEvent("add", r, chat[r].access_token, chat[r].record, <<>>)
    /\ UNCHANGED <<nextRecId, cal, nextEventId, undone>>

\* get_last, action_history.py:37-39: the key test
ScanLookup(r, tok) ==
    /\ Runs(r)
    /\ chat[r].pc = "await"
    /\ IF get_key(tok) \in DOMAIN history
       THEN /\ chat' = [chat EXCEPT ![r] =
                          [TaskAwait EXCEPT !.pc = "scan", !.access_token = tok,
                                            !.i = 1,
                                            !.snapshot = history[get_key(tok)]]]
            /\ event' = [kind |-> "step", request |-> r]
       ELSE /\ chat' = [chat EXCEPT ![r] = TaskAwait]
            /\ event' = ConcEvent("get_last", r, tok, NoRecord, <<>>)
    /\ UNCHANGED <<history, nextRecId, added, cal, nextEventId, undone>>

\* get_last, action_history.py:40-43: one iteration of the for loop, or its end
ScanStep(r) ==
    /\ Runs(r)
    /\ chat[r].pc = "scan"
    /\ LET dq == history[get_key(chat[r].access_token)]
           i == chat[r].i
           return(ret) ==
               /\ chat' = [chat EXCEPT ![r] = TaskAwait]
               /\ event' = ConcEvent("get_last", r, chat[r].access_token, ret,
                                     chat[r].snapshot)
       IN  IF i > Len(dq) THEN return(NoRecord)
           ELSE IF ~dq[i].rolled_back
                   /\ dq[i].action_type \in {"create", "update", "delete"}
           THEN return(dq[i])
           ELSE /\ chat' = [chat EXCEPT ![r].i = i + 1]
                /\ event' = [kind |-> "step", request |-> r]
    /\ UNCHANGED <<history, nextRecId, added, cal, nextEventId, undone>>

InitConc ==
    /\ history = EmptyMap
    /\ nextRecId = 1
    /\ added = EmptyMap
    /\ cal = [id \in EventIds |-> IF id = 1 THEN InitialEvent ELSE NoEvent]
    /\ nextEventId = 2
    /\ chat = [r \in Requests |-> TaskAwait]
    /\ undone = {}
    /\ event = [kind |-> "init"]

NextConc ==
    \/ \E r \in Requests, tok \in SameSession, ty \in RecordTypes : AddLookup(r, tok, ty)
    \/ \E r \in Requests : AddNew(r)
    \/ \E r \in Requests : AddAppend(r)
    \/ \E r \in Requests, tok \in SameSession : ScanLookup(r, tok)
    \/ \E r \in Requests : ScanStep(r)

SpecConc == InitConc /\ [][NextConc]_vars

\* C20: however the store calls of concurrent requests of one session
\* interleave, no append is lost (the journal holds the most recently added
\* records, up to its capacity, every completed add among them), and every
\* get_last returns what the scan gives on the journal as it was when the
\* scan began, which is also the journal as it is when the scan returns.
C20_StoreCallsAreAtomic ==
    /\ DOMAIN added \subseteq DOMAIN history
    /\ \A key \in DOMAIN added :
          /\ Len(history[key]) = Min(Len(added[key]), max_history)
          /\ \A i \in DOMAIN history[key] : history[key][i].id = added[key][i]
    /\ event.kind = "get_last" =>
          /\ event.ret = scan_last(event.snapshot, 1)
          /\ event.ret = get_last(history, event.token)

\* a request's scan returned the record another request added, passing over
\* a newer record
C20_Witness ==
    /\ event.kind = "get_last"
    /\ event.ret # NoRecord
    /\ event.ret.event_id # event.request
    /\ Len(event.snapshot) = 2
    /\ event.ret = event.snapshot[2]
    /\ event.snapshot[1].event_id = event.request

---------------------------------------------------------------------------
(* Create and update actions *)

\* C21: a create action makes one insert call.  When the call succeeds the
\* action journals exactly one record, with action_type create, the
\* identifier the backend assigned as event_id, an empty rollback payload
\* and rolled_back false, and its result has success and can_undo true;
\* when the call fails nothing is journaled.
C21_CreateJournalsAssignedId ==
    [][FirstPassDone(event', "create") =>
          LET r == LastOf(chat'.results)
              key == get_key(chat.access_token)
          IN  /\ Len(event'.calls) = 1
              /\ event'.calls[1].op = "insert"
              /\ IF event'.calls[1].status = "ok"
                 THEN \E id \in EventIds :
                         \* the backend stored the event under a fresh identifier
                         /\ ~present(cal, id)
                         /\ present(cal', id)
                         /\ cal'[id]["id"] = id
                         /\ r.data["id"] = id
                         /\ history' = add(history, chat.access_token,
                                           [id |-> nextRecId, timestamp |-> nextRecId,
                                            action_type |-> "create", event_id |-> id,
                                            rollback_data |-> EmptyDict,
                                            rolled_back |-> FALSE])
                         /\ Len(added'[key]) = Len(JournalOf(added, chat.access_token)) + 1
                         /\ nextRecId' = nextRecId + 1
                         /\ event'.journaled = nextRecId
                         /\ r.success
                         /\ r.can_undo
                 ELSE /\ history' = history
                      /\ added' = added
                      /\ nextRecId' = nextRecId
                      /\ event'.journaled = 0
                      /\ cal' = cal
                      /\ ~r.success
                      /\ ~r.can_undo]_vars

\* a create succeeded: the newest record of the session is its create
\* record, naming the event the backend now stores
C21_Witness ==
    /\ FirstPassDone(event, "create")
    /\ event.calls[1].status = "ok"
    /\ LET rec == JournalOf(history, chat.access_token)[1]
       IN  /\ rec.id = event.journaled
           /\ rec.action_type = "create"
           /\ rec.rollback_data = EmptyDict
           /\ present(cal, rec.event_id)
           /\ LastOf(chat.results).data["id"] = rec.event_id

\* the backend call that wrote the event, if the update action made one
Wrote(calls) == calls # <<>> /\ LastOf(calls).op = "update" /\ LastOf(calls).status = "ok"

\* C22: an update action begins with a fetch of the event.  If that fetch
\* fails, no update call is made and nothing is journaled.  A successful
\* update journals one update record whose rollback payload is the fetched
\* snapshot, which is the event as the backend stored it immediately before
\* this update's write (the action runs without yielding, and the write is
\* its only change to the event).
C22_UpdateJournalsPriorState ==
    [][FirstPassDone(event', "update") =>
          LET r == LastOf(chat'.results)
              id == event'.action.event_id
              calls == event'.calls
          IN  /\ calls[1] = Call("get", id, NoData, calls[1].status)
              /\ calls[1].status # "ok" =>
                    /\ Len(calls) = 1
                    /\ CallsOf(calls, "update") = {}
                    /\ history' = history
                    /\ event'.journaled = 0
              /\ \A k \in CallsOf(calls, "update") :
                    /\ k = Len(calls)
                    /\ calls[1].status = "ok"
              /\ Wrote(calls) <=> event'.journaled # 0
              /\ Wrote(calls) <=> (r.success /\ r.can_undo)
              /\ Wrote(calls) =>
                    /\ present(cal, id)
                    /\ cal' = [cal EXCEPT ![id] = stored(LastOf(calls).body, cal[id])]
                    /\ history' = add(history, chat.access_token,
                                      [id |-> nextRecId, timestamp |-> nextRecId,
                                       action_type |-> "update", event_id |-> id,
                                       rollback_data |-> [original_event |-> cal[id]],
                                       rolled_back |-> FALSE])
                    /\ event'.journaled = nextRecId
              /\ ~Wrote(calls) =>
                    /\ history' = history
                    /\ added' = added
                    /\ nextRecId' = nextRecId
                    /\ ~r.success]_vars

\* an event was updated twice: the payload of the second update is the
\* event as the first update left it, not as it was before both
C22_Witness ==
    /\ FirstPassDone(event, "update")
    /\ Wrote(event.calls)
    /\ LET dq == JournalOf(history, chat.access_token)
       IN  /\ Len(dq) = 2
           /\ dq[1].id = event.journaled
           /\ dq[1].action_type = "update"
           /\ dq[2].action_type = "update"
           /\ dq[1].event_id = dq[2].event_id
           /\ dq[2].rollback_data["original_event"]["summary"] = "a"
           /\ dq[1].rollback_data["original_event"]["summary"] = "b"

---------------------------------------------------------------------------
(* Branches of the delete protocol of the first pass *)

\* the message of agent_routes.py:259
NotFoundMessage == "Event not found. It may have already been deleted."

\* C23: when the pre-check fetch of a first-pass delete reports NotFound the
\* action ends at once: that fetch is its only backend call (no delete call,
\* no retry), its result has success and can_undo false, the "not found,
\* possibly already deleted" error and no retry_needed flag, nothing is
\* journaled, and the loop goes on to the next action.
C23_PreCheckNotFoundEnds ==
    [][(/\ chat.pc = "run"
        /\ chat.i <= chat.n
        /\ chat' # chat
        /\ chat'.actions[chat.i].action = "delete"
        /\ (IF chat'.pc = "run" THEN event'.calls ELSE chat'.calls)[1].status = "notfound")
       =>
          LET r == LastOf(chat'.results)
          IN  /\ FirstPassDone(event', "delete")
              /\ event'.calls = <<Call("get", event'.action.event_id, NoData, "notfound")>>
              /\ r = ActionResult("delete", FALSE, NoData, NotFoundMessage, FALSE)
              /\ ~dict_get(r.data, "retry_needed")
              /\ Len(chat'.results) = Len(chat.results) + 1
              /\ event'.journaled = 0
              /\ history' = history
              /\ added' = added
              /\ nextRecId' = nextRecId
              /\ chat'.pc = "run"
              /\ chat'.i = chat.i + 1
              /\ chat'.n = chat.n]_vars

\* a delete ended at its pre-check with NotFound and the next action of the
\* request ran after it; the request needed no re-plan
C23_Witness ==
    /\ chat.pc = "run"
    /\ Len(chat.results) = 2
    /\ chat.results[1] = ActionResult("delete", FALSE, NoData, NotFoundMessage, FALSE)
    /\ chat.results[2].success
    /\ failed_deletes(chat.results) = {}

\* positions of the delete calls that reported NotFound
GoneAtDelete(calls) == {k \in CallsOf(calls, "delete") : calls[k].status = "notfound"}

\* C24: when a delete call of a first-pass delete reports NotFound, on
\* whichever attempt, the protocol is Confirmed by that call: it is the
\* action's last backend call (no verification fetch follows it), the result
\* has success and can_undo true, and one delete record with the pre-check
\* snapshot is journaled.
C24_DeleteNotFoundConfirms ==
    [][/\ chat'.pc \in {"verify", "backoff"} => GoneAtDelete(chat'.calls) = {}
       /\ (FirstPassDone(event', "delete") /\ GoneAtDelete(event'.calls) # {}) =>
             LET r == LastOf(chat'.results)
                 id == event'.action.event_id
                 calls == event'.calls
             IN  /\ GoneAtDelete(calls) = {Len(calls)}
                 /\ calls[1].status = "ok"
                 /\ ProtocolEnd(calls) = "confirmed"
                 /\ r.success
                 /\ r.can_undo
                 /\ r.error = NoError
                 /\ event'.journaled = nextRecId
                 /\ nextRecId' = nextRecId + 1
                 /\ history' = add(history, chat.access_token,
                                   [id |-> nextRecId, timestamp |-> nextRecId,
                                    action_type |-> "delete", event_id |-> id,
                                    rollback_data |-> [deleted_event |-> PreCheckSnapshot],
                                    rolled_back |-> FALSE])]_vars

\* the first delete call was acknowledged but the event was still there;
\* the delete call of the second attempt reported NotFound and the action
\* was journaled
C24_Witness ==
    /\ FirstPassDone(event, "delete")
    /\ Trace(event.calls) = <<<<"get", "ok">>, <<"delete", "ok">>, <<"get", "ok">>,
                              <<"delete", "notfound">>>>
    /\ LastOf(chat.results).can_undo
    /\ JournalOf(history, chat.access_token)[1].id = event.journaled

\* the backend calls the current first-pass action has made once this step
\* is over: those of the finished action, or those the suspended coroutine holds
StepCalls == IF chat'.pc = "run" THEN event'.calls ELSE chat'.calls

\* this step of a first-pass action made a delete call that reported a
\* backend error other than NotFound
DeleteCallFailed ==
    /\ chat.pc \in {"run", "backoff"}
    /\ chat.i <= chat.n
    /\ chat' # chat
    /\ LastOf(StepCalls).op = "delete"
    /\ LastOf(StepCalls).status = "other"

\* C25: when a delete call of a first-pass delete reports a backend error
\* other than NotFound, the protocol waits and makes the delete call again
\* if attempts remain; when it was the last attempt the error reaches the
\* action boundary: the result has success false and an error message and
\* no retry_needed flag (it is not among the failed deletes that trigger a
\* re-plan), and nothing is journaled.
C25_DeleteErrorRetriesThenPropagates ==
    [][/\ DeleteCallFailed =>
             LET made == Cardinality(CallsOf(StepCalls, "delete"))
                 r == LastOf(chat'.results)
             IN  /\ made <= max_attempts
                 /\ history' = history
                 /\ added' = added
                 /\ nextRecId' = nextRecId
                 /\ IF made < max_attempts
                    THEN /\ chat'.pc = "backoff"
                         /\ chat'.i = chat.i
                         /\ chat'.results = chat.results
                    ELSE /\ FirstPassDone(event', "delete")
                         /\ ProtocolEnd(event'.calls) = "error"
                         /\ r = ActionResult("delete", FALSE, NoData,
                                             handle_google_error("other"), FALSE)
                         /\ r.error # NoError
                         /\ ~dict_get(r.data, "retry_needed")
                         /\ Len(chat'.results) \notin failed_deletes(chat'.results)
                         /\ event'.journaled = 0
       /\ (chat.pc = "backoff" /\ chat' # chat) =>
             /\ StepCalls = Append(chat.calls, LastOf(StepCalls))
             /\ LastOf(StepCalls).op = "delete"
             /\ LastOf(StepCalls).id = chat.actions[chat.i].event_id]_vars

\* both delete calls of an action failed with a backend error: the action
\* ended with the error, unjournaled and not flagged for a re-plan
C25_Witness ==
    /\ FirstPassDone(event, "delete")
    /\ Trace(event.calls) = <<<<"get", "ok">>, <<"delete", "other">>, <<"delete", "other">>>>
    /\ LastOf(chat.results).error = handle_google_error("other")
    /\ failed_deletes(chat.results) = {}
    /\ event.journaled = 0

\* the event was still there after every delete call of the budget
PresentToTheEnd ==
    <<<<"get", "ok">>, <<"delete", "ok">>, <<"get", "ok">>,
      <<"delete", "ok">>, <<"get", "ok">>>>

\* C26: the coroutine waits in Verify only after a delete call that reported
\* success, and the verification fetch made there decides the next protocol
\* state.  NotFound: Confirmed.  Event returned: RetryAttempt when attempts
\* remain, from which the next step is the delete call of the next attempt;
\* Failed when this was the last attempt.
C26_VerificationDecides ==
    [][/\ chat'.pc = "verify" =>
             /\ LastOf(chat'.calls).op = "delete"
             /\ LastOf(chat'.calls).status = "ok"
             /\ chat'.attempt = Cardinality(CallsOf(chat'.calls, "delete")) - 1
       /\ (chat.pc = "verify" /\ chat' # chat) =>
             LET fetch == LastOf(StepCalls)
                 r == LastOf(chat'.results)
             IN  /\ StepCalls = Append(chat.calls, fetch)
                 /\ fetch.op = "get"
                 /\ fetch.id = chat.actions[chat.i].event_id
                 /\ fetch.status = "notfound" =>
                       /\ FirstPassDone(event', "delete")
                       /\ ProtocolEnd(event'.calls) = "confirmed"
                       /\ event'.journaled = nextRecId
                       /\ r.success
                 /\ (fetch.status = "ok" /\ chat.attempt < max_attempts - 1) =>
                       /\ chat'.pc = "backoff"
                       /\ chat'.attempt = chat.attempt
                       /\ chat'.results = chat.results
                       /\ history' = history
                 /\ (fetch.status = "ok" /\ chat.attempt >= max_attempts - 1) =>
                       /\ FirstPassDone(event', "delete")
                       /\ ProtocolEnd(event'.calls) = "failed"
                       /\ event'.journaled = 0
                       /\ ~r.success
                       /\ dict_get(r.data, "retry_needed")
       /\ (chat.pc = "backoff" /\ LastOf(chat.calls).op = "get" /\ chat' # chat) =>
             /\ LastOf(StepCalls).op = "delete"
             /\ Len(StepCalls) = Len(chat.calls) + 1
             /\ chat'.pc \in {"verify", "backoff", "run"}
             /\ chat'.pc = "verify" => chat'.attempt = chat.attempt + 1]_vars

\* both verification fetches returned the event: the protocol went through
\* RetryAttempt once and ended in Failed
C26_Witness ==
    /\ FirstPassDone(event, "delete")
    /\ Trace(event.calls) = PresentToTheEnd
    /\ dict_get(LastOf(chat.results).data, "retry_needed")
    /\ event.journaled = 0

\* C27: when the verification fetch of a first-pass delete fails with a
\* backend error other than NotFound, the protocol ends in Confirmed on that
\* attempt, whichever it is: the failed fetch is the action's last backend
\* call, the result has success and can_undo true and reports the delete as
\* verified, and the delete record is journaled with the pre-check snapshot.
C27_UnverifiableIsConfirmed ==
    [][(/\ chat.pc = "verify"
        /\ chat' # chat
        /\ LastOf(StepCalls).status = "other")
       =>
          LET r == LastOf(chat'.results)
              id == chat.actions[chat.i].event_id
          IN  /\ FirstPassDone(event', "delete")
              /\ event'.calls = Append(chat.calls, Call("get", id, NoData, "other"))
              /\ chat'.pc = "run"
              /\ chat'.i = chat.i + 1
              /\ r.success
              /\ r.can_undo
              /\ r.data = [deleted |-> id, summary |-> chat.event_to_delete["summary"],
                           verified |-> TRUE]
              /\ event'.journaled = nextRecId
              /\ history' = add(history, chat.access_token,
                                [id |-> nextRecId, timestamp |-> nextRecId,
                                 action_type |-> "delete", event_id |-> id,
                                 rollback_data |-> [deleted_event |-> chat.event_to_delete],
                                 rolled_back |-> FALSE])
              \* the fetch observed nothing: the calendar is as it was
              /\ cal' = cal]_vars

\* the first verification fetch failed with a backend error: the delete is
\* reported verified and journaled while the backend still holds the event
C27_Witness ==
    /\ FirstPassDone(event, "delete")
    /\ Trace(event.calls) = <<<<"get", "ok">>, <<"delete", "ok">>, <<"get", "other">>>>
    /\ LastOf(chat.results).success
    /\ LastOf(chat.results).can_undo
    /\ JournalOf(history, chat.access_token)[1].id = event.journaled
    /\ present(cal, event.action.event_id)

\* the calls of a first-pass delete, finished or suspended, stay within the
\* attempt budget: a pre-check fetch first, then per attempt one delete call
\* and, only after a delete call that reported success, one verification fetch
WithinBudget(calls, id) ==
    /\ calls # <<>>
    /\ \A k \in DOMAIN calls : calls[k].id = id /\ calls[k].op \in {"get", "delete"}
    /\ calls[1].op = "get"
    /\ Cardinality(CallsOf(calls, "delete")) <= max_attempts
    /\ Cardinality(Verifications(calls)) <= max_attempts
    /\ Len(calls) <= 1 + 2 * max_attempts
    /\ \A k \in Verifications(calls) :
          /\ calls[k - 1].op = "delete"
          /\ calls[k - 1].status = "ok"

\* the four ways the protocol can end, as the result of the action shows them
EndShown(r) ==
    {end \in {"notfound", "confirmed", "failed", "error"} :
        \/ /\ end = "notfound"
           /\ r = ActionResult("delete", FALSE, NoData, NotFoundMessage, FALSE)
        \/ /\ end = "confirmed"
           /\ r.success
           /\ r.can_undo
           /\ dict_get(r.data, "verified")
        \/ /\ end = "failed"
           /\ ~r.success
           /\ ~r.can_undo
           /\ dict_get(r.data, "retry_needed")
        \/ /\ end = "error"
           /\ r = ActionResult("delete", FALSE, NoData, handle_google_error("other"), FALSE)}

\* C28: with the budget of 2 attempts a first-pass delete makes one
\* pre-check fetch, at most 2 delete calls and at most 2 verification
\* fetches, each verification fetch right after a delete call of the same
\* attempt that reported success; and the protocol ends in exactly one of
\* not-found error, Confirmed, Failed and propagated backend error.
C28_ProtocolWithinBudget ==
    /\ max_attempts = 2
    /\ chat.pc \in {"verify", "backoff"} =>
          /\ WithinBudget(chat.calls, chat.actions[chat.i].event_id)
          /\ chat.attempt < max_attempts
          /\ Len(chat.calls) < 1 + 2 * max_attempts
    /\ FirstPassDone(event, "delete") =>
          /\ WithinBudget(event.calls, event.action.event_id)
          /\ EndShown(LastOf(chat.results)) = {ProtocolEnd(event.calls)}

\* a delete used its whole budget, two delete calls and two verification
\* fetches, and ended
C28_Witness ==
    /\ FirstPassDone(event, "delete")
    /\ Cardinality(CallsOf(event.calls, "delete")) = max_attempts
    /\ Cardinality(Verifications(event.calls)) = max_attempts
    /\ LastOf(event.calls).status = "other"
    /\ EndShown(LastOf(chat.results)) = {"confirmed"}

---------------------------------------------------------------------------
(* The second pass *)

\* the deletes among the first k actions of the second response
RetryDeletes(ch, k) ==
    {m \in 1..k : m <= Len(ch.retry_actions) /\ ch.retry_actions[m].action = "delete"}

\* C29: of the second interpreter response only the delete actions are
\* executed.  A create, update, list or get action of that response is
\* passed over: no backend call, no calendar or journal change, no result.
\* Each delete that has run to its end has appended one result after the
\* first-pass results, which stay as they were and in their order.
C29_ReplanRunsOnlyDeletes ==
    [][(chat.pc \in {"rrun", "rverify"} /\ chat' # chat) =>
          LET first == SubSeq(chat.results, 1, chat.n)
          IN  /\ Len(chat.results) >= chat.n
              /\ chat'.pc # "idle" =>
                    /\ chat'.n = chat.n
                    /\ SubSeq(chat'.results, 1, chat.n) = first
                    /\ IsPrefix(chat.results, chat'.results)
                    /\ Len(chat'.results) =
                          chat.n + Cardinality(RetryDeletes(chat', chat'.j - 1))
                    /\ \A k \in (chat.n + 1)..Len(chat'.results) :
                          chat'.results[k].action = "delete"
              /\ chat'.pc = "idle" =>
                    /\ event'.kind = "chat_response"
                    /\ event'.results = chat.results
              /\ (chat.pc = "rrun" /\ chat.j <= chat.retry_n
                  /\ chat'.retry_actions[chat.j].action # "delete") =>
                    /\ event' = ChatStep("skip")
                    /\ chat' = [chat EXCEPT !.j = @ + 1,
                                            !.retry_actions = chat'.retry_actions]
                    /\ cal' = cal
                    /\ nextEventId' = nextEventId
                    /\ history' = history
                    /\ added' = added
                    /\ nextRecId' = nextRecId
              /\ (chat.pc = "rrun" /\ chat.j <= chat.retry_n
                  /\ chat'.retry_actions[chat.j].action = "delete") =>
                    \/ chat'.pc = "rverify" /\ chat'.j = chat.j
                    \/ /\ chat'.pc = "rrun"
                       /\ chat'.j = chat.j + 1
                       /\ Len(chat'.results) = Len(chat.results) + 1
                       /\ event'.pass = "retry"
                       /\ event'.calls # <<>>]_vars

\* the second response held a create: it was passed over, leaving the
\* first-pass results alone and the backend without a new event
C29_Witness ==
    /\ event = ChatStep("skip")
    /\ chat.pc = "rrun"
    /\ chat.j = 2
    /\ chat.retry_actions[1].action = "create"
    /\ Len(chat.results) = chat.n
    /\ dict_get(chat.results[1].data, "retry_needed")
    /\ nextEventId = 2

\* the observation is a finished delete of the second pass
RetryDone(e) ==
    /\ e.kind = "chat"
    /\ e.step = "action"
    /\ e.pass = "retry"

\* the backend responses are a complete run of the Verify-Retry Protocol of
\* the first pass: after the last of them the protocol makes no further call
ProtocolComplete(calls) ==
    LET last == LastOf(calls)
        used == Cardinality(CallsOf(calls, "delete"))
    IN  IF Len(calls) = 1 THEN last.status # "ok"
        ELSE IF last.status = "notfound" THEN TRUE
        ELSE IF last.op = "delete" THEN last.status = "other" /\ used = max_attempts
        ELSE last.status = "other" \/ used = max_attempts

\* what the first pass makes of a delete, given its backend responses
AsInFirstPass(calls, r, journaled) ==
    /\ ProtocolComplete(calls)
    /\ EndShown(r) = {ProtocolEnd(calls)}
    /\ (journaled # 0) <=> (ProtocolEnd(calls) = "confirmed")

\* C30: a delete of the second pass runs through the Verify-Retry Protocol
\* of the first pass: for the backend responses it met it makes the same
\* number of attempts, reaches the same outcome with the same success and
\* can_undo flags, and journals in the same cases.
\* (The second pass of agent_routes.py:384-413 makes one attempt and has its
\* own results for NotFound and for an unverifiable delete, so this fails.)
C30_ReplanDeleteSameProtocol ==
    RetryDone(event) =>
        AsInFirstPass(event.calls, LastOf(chat.results), event.journaled)

---------------------------------------------------------------------------
(* The response of a request *)

\* the results of the second pass that confirmed their delete: verified by
\* the fetch after the delete call, and journaled
ConfirmedRetries(results, n) ==
    {k \in (n + 1)..Len(results) :
        results[k].success /\ results[k].can_undo /\ dict_get(results[k].data, "verified")}

AfterFailedReplan(e) ==
    /\ e.kind = "chat_response"
    /\ "replan" \in DOMAIN e
    /\ e.replan = "failed"

\* C33: a failure of the second interpreter call does not abort the
\* request.  The step that leaves the second call without a response to
\* execute answers the request with status 200, the first-pass results
\* unchanged and the message of the first interpreter response; it writes
\* neither the calendar nor the journal, so the records of the first pass
\* stay journaled.
C33_ReplanFailureKeepsFirstPass ==
    [][/\ (chat.pc = "llm2" /\ chat'.pc = "idle") <=> AfterFailedReplan(event')
       /\ AfterFailedReplan(event') =>
             /\ event'.status = 200
             /\ event'.message = "m1"
             /\ event'.results = chat.results
             /\ Len(event'.results) = chat.n
             /\ failed_deletes(event'.results) # {}
             /\ history' = history
             /\ added' = added
             /\ nextRecId' = nextRecId
             /\ cal' = cal
             /\ nextEventId' = nextEventId]_vars

\* the first pass journaled an action and failed a delete, the second
\* interpreter call failed: the response holds both results and the record
\* is still the newest of the session's journal
C33_Witness ==
    /\ AfterFailedReplan(event)
    /\ Len(event.results) = 2
    /\ event.results[1].can_undo
    /\ dict_get(event.results[2].data, "retry_needed")
    /\ JournalOf(history, event.token) # <<>>
    /\ ~JournalOf(history, event.token)[1].rolled_back
    /\ JournalOf(history, event.token)[1].action_type = event.results[1].action

---------------------------------------------------------------------------
(* Results and the journal *)

\* the observation is a finished action, of either pass
AnyActionDone(e) == e.kind = "chat" /\ e.step = "action"

\* C34: for every result of a request, first pass and second pass alike,
\* can_undo is true if and only if the action journaled exactly one record,
\* and that record has the action's type and event id (for a create, the id
\* of the created event); a result with can_undo false comes with no journal
\* write; the journal is written by no other step of a request; and a result
\* with success true carries no error.
C34_CanUndoIffJournaled ==
    [][/\ AnyActionDone(event') =>
             LET r == LastOf(chat'.results)
                 a == event'.action
                 id == IF a.action = "create" THEN r.data["id"] ELSE a.event_id
             IN  /\ r.action = a.action
                 /\ Len(chat'.results) = Len(chat.results) + 1
                 /\ r.can_undo <=> event'.journaled # 0
                 /\ r.can_undo =>
                       /\ r.success
                       /\ a.action \in Undoable
                       /\ event'.journaled = nextRecId
                       /\ nextRecId' = nextRecId + 1
                       /\ history' = add(history, chat.access_token,
                                         JournalOf(history', chat.access_token)[1])
                       /\ LET rec == JournalOf(history', chat.access_token)[1]
                          IN  /\ rec.id = nextRecId
                              /\ rec.action_type = a.action
                              /\ rec.event_id = id
                              /\ ~rec.rolled_back
                 /\ ~r.can_undo =>
                       /\ history' = history
                       /\ added' = added
                       /\ nextRecId' = nextRecId
       /\ nextRecId' # nextRecId => AnyActionDone(event')
       /\ \A k \in DOMAIN chat'.results :
             chat'.results[k].success => chat'.results[k].error = NoError]_vars

\* a delete of the second pass was confirmed: its result has can_undo true
\* and its record is the newest of the journal; the first-pass result before
\* it has can_undo false and left no record
C34_Witness ==
    /\ RetryDone(event)
    /\ event.journaled # 0
    /\ LastOf(chat.results).can_undo
    /\ ~chat.results[1].can_undo
    /\ LET dq == JournalOf(history, chat.access_token)
       IN  /\ Len(dq) = 1
           /\ dq[1].id = event.journaled
           /\ dq[1].action_type = "delete"
           /\ dq[1].event_id = event.action.event_id

---------------------------------------------------------------------------
(* Repeated undo *)

\* every backend call of the undo succeeded (and it made one)
AllCallsOk(calls) == calls # <<>> /\ \A k \in DOMAIN calls : calls[k].status = "ok"

\* position of the most recently journaled undo-eligible record
NewestEligible(dq) == CHOOSE i \in Eligible(dq) : \A j \in Eligible(dq) : i <= j

\* C37: an undo call on a session with undo-eligible records targets the one
\* journaled most recently, and when its backend call succeeds it reverses
\* that record and leaves exactly the other eligible records eligible, in
\* their places; on a session without eligible records it answers "nothing
\* to undo".  Hence, with every backend call succeeding and no action in
\* between, k eligible records are reversed by k calls, newest first, and
\* call k+1 answers "nothing to undo".
C37_UndoWalksBackOnePerCall ==
    [][event'.kind = "undo" =>
          LET dq == JournalOf(history, event'.token)
              dq2 == JournalOf(history', event'.token)
          IN  IF Eligible(dq) = {}
              THEN /\ event'.target = NoRecord
                   /\ event'.response = UndoResponse(FALSE, "No actions to undo", "None", NoData)
                   /\ event'.calls = <<>>
                   /\ history' = history
              ELSE /\ event'.target = dq[NewestEligible(dq)]
                   /\ \A j \in Eligible(dq) : dq[j].id <= event'.target.id
                   /\ Len(event'.calls) <= 1
                   /\ AllCallsOk(event'.calls) =>
                         /\ event'.response.success
                         /\ event'.response.undone_action = event'.target.action_type
                         /\ undone' = undone \cup {event'.target.id}
                         /\ event'.target.id \notin undone
                         /\ Len(dq2) = Len(dq)
                         /\ \A i \in DOMAIN dq : dq2[i].id = dq[i].id
                         /\ Eligible(dq2) = Eligible(dq) \ {NewestEligible(dq)}]_vars

\* a session journaled two actions and undid both, the newer one first;
\* its third undo call found nothing to undo
C37_Witness ==
    /\ event.kind = "undo"
    /\ event.target = NoRecord
    /\ event.response.message = "No actions to undo"
    /\ LET dq == JournalOf(history, event.token)
       IN  /\ Len(dq) = 2
           /\ dq[1].rolled_back
           /\ dq[2].rolled_back
           /\ undone = {dq[1].id, dq[2].id}

---------------------------------------------------------------------------
(* Frame of an undo call *)

\* a record without its rolled_back flag
Unflagged(rec) == [f \in (DOMAIN rec) \ {"rolled_back"} |-> rec[f]]

\* C35: an undo call, successful or not, changes nothing in the history
\* store except possibly the rolled_back flag of the record it targeted: the
\* journals hold the same records at the same places, each with the id,
\* type, event id and rollback payload it had before the call.
\* (The undo of a delete pops the backend fields from the dict the journal
\* holds, agent_routes.py:483-486, so this fails.)
C35_UndoChangesOnlyTheFlag ==
    [][event'.kind = "undo" =>
          /\ DOMAIN history' = DOMAIN history
          /\ \A key \in DOMAIN history :
                /\ Len(history'[key]) = Len(history[key])
                /\ \A i \in DOMAIN history[key] :
                      /\ Unflagged(history'[key][i]) = Unflagged(history[key][i])
                      /\ history'[key][i].rolled_back # history[key][i].rolled_back =>
                            /\ key = get_key(event'.token)
                            /\ event'.target # NoRecord
                            /\ history[key][i].id = event'.target.id]_vars

---------------------------------------------------------------------------
(* Isolation of the journals (checked under SpecStore) *)

\* the ids of the records a get_last or get_history call returned
Returned(e) ==
    IF e.kind = "get_last"
    THEN (IF e.ret = NoRecord THEN {} ELSE {e.ret.id})
    ELSE {e.ret[i].id : i \in DOMAIN e.ret}

\* C38: journals are partitioned by credential.  A record journaled under
\* one credential is not returned by the get_last or get_history call (the
\* lookups behind undo and the history listing) that another credential
\* makes next.
\* (The key is the last KeyLen characters of the credential,
\* action_history.py:24-26, so credentials that share them share a journal
\* and this fails.)
C38_JournalsPartitionedByCredential ==
    [][(/\ event.kind = "add"
        /\ event'.kind \in {"get_last", "get_history"}
        /\ event'.token # event.token)
       => event.arg.id \notin Returned(event')]_vars

---------------------------------------------------------------------------
(* Concurrent undo requests of one session.  undo_last_action is run        *)
(* statement by statement for several requests on the event loop: the      *)
(* lookup, the backend call of the inverse operation, the mark.  The       *)
(* journal they start from is the one a request that updated event 1 and   *)
(* created event 2 has left.                                               *)

\* the journal after a request that wrote event 1 (an update or a delete,
\* by first) and created event 2
JournaledTwice(first) ==
    add(add(EmptyMap, TokA,
            ActionRecord(1, first, 1,
                IF first = "update" THEN [original_event |-> InitialEvent]
                                    ELSE [deleted_event |-> InitialEvent])),
        TokA, ActionRecord(2, "create", 2, EmptyDict))

\* the calendar after that request
CalendarAfterTwo(first) ==
    [id \in EventIds |->
        IF id = 1 THEN IF first = "update" THEN [InitialEvent EXCEPT !["summary"] = "b"]
                                           ELSE NoEvent
        ELSE IF id = 2 THEN stored(create_body("a"), assigned(2))
        ELSE NoEvent]

\* undo_last_action, agent_routes.py:446-449: the lookup
UndoLookup(r, tok) ==
    /\ Runs(r)
    /\ chat[r].pc = "await"
    /\ LET last_action == get_last(history, tok)
       IN  IF last_action = NoRecord
           THEN /\ chat' = [chat EXCEPT ![r] = TaskAwait]
                /\ event' = ConcEvent("undo", r, tok,
                                UndoResponse(FALSE, "No actions to undo", "None", NoData),
                                <<>>)
           ELSE /\ chat' = [chat EXCEPT ![r] =
                               [TaskAwait EXCEPT !.pc = "undo_call", !.access_token = tok,
                                                 !.record = last_action]]
                /\ event' = [kind |-> "step", request |-> r]
    /\ UNCHANGED <<history, nextRecId, added, cal, nextEventId, undone>>

\* the inverse operation of a record as a backend call: its outcomes and the
\* journal after the statements that precede the call
InverseCall(rec, tok) ==
    IF rec.action_type = "create"
    THEN [outs |-> svc_delete(cal, nextEventId, rec.event_id), h |-> history]
    ELSE IF rec.action_type = "update"
    THEN [outs |-> svc_update(cal, nextEventId, rec.event_id,
                              rec.rollback_data["original_event"]),
          h |-> history]
    ELSE LET deleted_event == strip_fields(rec.rollback_data["deleted_event"])
         IN  [outs |-> svc_insert(cal, nextEventId, deleted_event),
              h |-> replace_record(history, tok,
                       [rec EXCEPT !.rollback_data = [deleted_event |-> deleted_event]])]

\* undo_last_action, agent_routes.py:453-491: the backend call of the branch
\* of the record's type; a failure returns through the except clauses
UndoCall(r) ==
    /\ Runs(r)
    /\ chat[r].pc = "undo_call"
    /\ LET rec == chat[r].record
           tok == chat[r].access_token
           inv == InverseCall(rec, tok)
       IN  \E out \in inv.outs :
              /\ cal' = out.cal
              /\ nextEventId' = out.next
              /\ history' = inv.h
              /\ IF out.status = "ok"
                 THEN /\ chat' = [chat EXCEPT ![r].pc = "undo_mark"]
                      /\ undone' = undone \cup {rec.id}
                      /\ event' = [kind |-> "inverse", request |-> r, id |-> rec.id,
                                   again |-> rec.id \in undone]
                 ELSE /\ chat' = [chat EXCEPT ![r] = TaskAwait]
                      /\ UNCHANGED undone
                      /\ event' = ConcEvent("undo", r, tok,
                                      UndoResponse(FALSE, "Failed to undo", "None", NoData),
                                      <<>>)
    /\ UNCHANGED <<nextRecId, added>>

\* undo_last_action: action_history.mark_rolled_back(...) and the return
\* (agent_routes.py:456-462, 473-479, 492-498)
UndoMark(r) ==
    /\ Runs(r)
    /\ chat[r].pc = "undo_mark"
    /\ history' = mark_rolled_back(history, chat[r].access_token, chat[r].record.id)
    /\ chat' = [chat EXCEPT ![r] = TaskAwait]
    /\ event' = ConcEvent("undo", r, chat[r].access_token,
                          UndoResponse(TRUE, "Undone", chat[r].record.action_type, NoData),
                          <<chat[r].record.id>>)
    /\ UNCHANGED <<nextRecId, added, cal, nextEventId, undone>>

InitUndo ==
    /\ \E first \in {"update", "delete"} :
          /\ history = JournaledTwice(first)
          /\ cal = CalendarAfterTwo(first)
    /\ nextRecId = 3
    /\ added = note_added(note_added(EmptyMap, TokA, 1), TokA, 2)
    /\ nextEventId = 3
    /\ chat = [r \in Requests |-> TaskAwait]
    /\ undone = {}
    /\ event = [kind |-> "init"]

NextUndo ==
    \/ \E r \in Requests, tok \in SameSession : UndoLookup(r, tok)
    \/ \E r \in Requests : UndoCall(r)
    \/ \E r \in Requests : UndoMark(r)

SpecUndo == InitUndo /\ [][NextUndo]_vars

\* the requests that are inside the handler with a given record
Holding(ch, id) == {r \in Requests : ch[r].pc \in {"undo_call", "undo_mark"} /\ ch[r].record.id = id}

\* C36: however concurrent undo requests of one session key interleave, the
\* inverse operation of a journal record is applied to the backend at most
\* once, and the record's rolled_back flag is set by exactly one request:
\* the one that applied the inverse, which finds the flag unset.
C36_InverseAppliedOnce ==
    [][\A r \in Requests :
          /\ (chat[r].pc = "undo_call" /\ chat'[r].pc = "undo_mark") =>
                /\ chat[r].record.id \notin undone
                /\ ~RolledBack(history, chat[r].access_token, chat[r].record.id)
                /\ Holding(chat, chat[r].record.id) = {r}
          /\ (chat[r].pc = "undo_mark" /\ chat'[r].pc = "await") =>
                /\ chat[r].record.id \in undone
                /\ ~RolledBack(history, chat[r].access_token, chat[r].record.id)
                /\ RolledBack(history', chat[r].access_token, chat[r].record.id)
                /\ Holding(chat, chat[r].record.id) = {r}
          /\ Flagged(history') \subseteq undone']_vars

\* two requests with different credentials of one session key have each
\* undone one of the two records
C36_Witness ==
    /\ event.kind = "undo"
    /\ event.ret.success
    /\ event.token = TokB
    /\ event.snapshot = <<1>>
    /\ undone = {1, 2}
    /\ Flagged(history) = {1, 2}
    /\ \A r \in Requests : chat[r].pc = "await"

---------------------------------------------------------------------------
(* Termination of a request.  Every call the handler awaits returns, so    *)
(* the event loop resumes the coroutine at each of its steps: the steps of *)
(* a request in flight are weakly fair.  One session is followed: its chat *)
(* requests, and its undo requests that arrive while a chat request is at  *)
(* an await; when they arrive is up to the caller.                         *)

\* a step of the request in flight
RequestStep ==
    \/ LlmFirst
    \/ RunCreate
    \/ RunUpdate
    \/ RunDelete
    \/ RunList
    \/ RunGet
    \/ VerifyStep
    \/ BackoffStep
    \/ FinishFirstPass
    \/ LlmSecond
    \/ SkipRetryAction
    \/ RunRetryDelete
    \/ RetryVerifyStep
    \/ FinishReplan

\* an undo request of the session served while its chat request is suspended
UndoDuring ==
    /\ chat.pc # "idle"
    /\ Undo(chat.access_token)

NextLive ==
    \/ ChatStart(TokA)
    \/ RequestStep
    \/ UndoDuring

SpecLive == Init /\ [][NextLive]_vars /\ WF_vars(RequestStep)

\* where the handler is: in its first pass, in its second pass
InFirstPass(ch) == ch.pc \in {"llm1", "run", "verify", "backoff"}
InSecondPass(ch) == ch.pc \in {"llm2", "rrun", "rverify"}

\* C32: with every backend and interpreter call returning, a request that
\* has started terminates; the re-plan is one second pass, entered from the
\* first pass only and left only by the end of the request; no action makes
\* more delete calls or fetches than its budget.
C32_RequestTerminates ==
    /\ (chat.pc # "idle") ~> (chat.pc = "idle")
    /\ [][/\ chat'.pc = "llm2" /\ chat.pc # "llm2" => InFirstPass(chat)
          /\ InSecondPass(chat) => (InSecondPass(chat') \/ chat'.pc = "idle")
          /\ (InFirstPass(chat') \/ InSecondPass(chat')) =>
                Len(chat'.calls) <= 2 * max_attempts + 1]_vars

\* a request has ended after a second pass whose delete was not confirmed
C32_Witness ==
    /\ event.kind = "chat_response"
    /\ "replan" \notin DOMAIN event
    /\ chat.pc = "idle"
    /\ Len(event.results) = 2
    /\ dict_get(event.results[1].data, "retry_needed")
    /\ event.results[2].action = "delete"
    /\ ~event.results[2].success

=============================================================================
